---- MODULE Spec2Model ----
(***************************************************************************)
(* py-cid: the CID value type (CIDv0, CIDv1), the validating constructor   *)
(* make_cid and the parser from_string / from_bytes of src/cid/cid.py.     *)
(*                                                                         *)
(* Bytes and text are sequences of numbers 0..255 (text is its UTF-8       *)
(* bytes, as ensure_bytes produces them).  The collaborators multibase,    *)
(* multicodec, multihash, varint and base58 are modelled by what they      *)
(* compute, on small registries.                                           *)
(***************************************************************************)
EXTENDS Integers, Sequences, FiniteSets, TLC

(***************************************************************************)
(* Bounds of the model.                                                    *)
(***************************************************************************)
\* digests of the multihashes that are enumerated have 1..MaxDigestLen bytes
MaxDigestLen == 2
\* arbitrary input buffers fed to the parser have 0..MaxRawLen bytes
MaxRawLen == 3
\* length of a to_v1 / to_v0 conversion chain
MaxHops == 2

\* longest data handed to sum
MaxDataLen == 2

\* builder objects alive at once
MaxBuilders == 2

\* visit calls of one execution context
MaxCalls == 2

\* parts (CID buffers and other bytes) concatenated into one stream
MaxParts == 2
\* from_reader calls made on one stream
MaxReads == 2

\* with_codec calls of one chain
MaxSwitches == 3

\* bytes of the short inputs of the varint decoder
MaxVarintLen == 3

(***************************************************************************)
(* Byte sequences and positional number conversion.                        *)
(***************************************************************************)
RECURSIVE StripZeros(_)
StripZeros(ds) ==
    IF ds = <<>> THEN <<>>
    ELSE IF Head(ds) = 0 THEN StripZeros(Tail(ds)) ELSE ds

RECURSIVE LeadingCount(_, _)
LeadingCount(s, x) ==
    IF s = <<>> THEN 0
    ELSE IF Head(s) = x THEN 1 + LeadingCount(Tail(s), x) ELSE 0

RECURSIVE Repeat(_, _)
Repeat(x, n) == IF n = 0 THEN <<>> ELSE <<x>> \o Repeat(x, n - 1)

Range(s) == {s[i] : i \in 1..Len(s)}

IndexOf(s, x) == CHOOSE i \in 1..Len(s) : s[i] = x

\* one pass of long division of the digits ds (base fb, most significant
\* first) by tb: <<quotient digits, remainder>>
RECURSIVE LongDiv(_, _, _, _)
LongDiv(ds, fb, tb, rem) ==
    IF ds = <<>> THEN <<<<>>, rem>>
    ELSE LET cur == rem * fb + Head(ds)
             rest == LongDiv(Tail(ds), fb, tb, cur % tb)
         IN  <<<<cur \div tb>> \o rest[1], rest[2]>>

\* the number written by ds in base fb, rewritten in base tb without leading
\* zeros (the number 0 is the empty sequence)
RECURSIVE ToBase(_, _, _)
ToBase(ds, fb, tb) ==
    LET s == StripZeros(ds)
    IN  IF s = <<>> THEN <<>>
        ELSE LET qr == LongDiv(s, fb, tb, 0)
             IN  ToBase(qr[1], fb, tb) \o <<qr[2]>>

\* results of operations that yield bytes
BOk(b) == [ok |-> TRUE, val |-> b, err |-> ""]
BFail(e) == [ok |-> FALSE, val |-> <<>>, err |-> e]

(***************************************************************************)
(* varint (the multiformats unsigned varint used by multicodec, multihash) *)
(***************************************************************************)
RECURSIVE varint_encode(_)
varint_encode(n) ==
    IF n > 127 THEN <<(n % 128) + 128>> \o varint_encode(n \div 128)
    ELSE <<n>>

\* [ok, val, len]: the number and how many bytes it took; not ok when the
\* bytes end before a byte with a clear high bit
RECURSIVE varint_decode(_)
varint_decode(b) ==
    IF b = <<>> THEN [ok |-> FALSE, val |-> 0, len |-> 0]
    ELSE IF Head(b) < 128 THEN [ok |-> TRUE, val |-> Head(b), len |-> 1]
    ELSE LET r == varint_decode(Tail(b))
         IN  [ok |-> r.ok, val |-> (Head(b) % 128) + 128 * r.val, len |-> r.len + 1]

(***************************************************************************)
(* multicodec registry: codec name <-> varint prefix                       *)
(***************************************************************************)
CodecTable == [name \in {"dag-pb", "raw", "dag-json"} |->
                 CASE name = "dag-pb" -> 112
                   [] name = "raw" -> 85
                   [] name = "dag-json" -> 297]

CodecNames == DOMAIN CodecTable

multicodec_is_codec(name) == name \in CodecNames

multicodec_get_prefix(name) ==
    IF name \in CodecNames THEN BOk(varint_encode(CodecTable[name]))
    ELSE BFail("UnknownCodec")

multicodec_add_prefix(name, bytes) ==
    LET p == multicodec_get_prefix(name)
    IN  IF p.ok THEN BOk(p.val \o bytes) ELSE p

\* [ok, name, err]
multicodec_get_codec(bytes) ==
    LET d == varint_decode(bytes)
    IN  IF ~d.ok THEN [ok |-> FALSE, name |-> "", err |-> "MalformedVarint"]
        ELSE IF \E n \in CodecNames : CodecTable[n] = d.val
             THEN [ok |-> TRUE, name |-> CHOOSE n \in CodecNames : CodecTable[n] = d.val,
                   err |-> ""]
             ELSE [ok |-> FALSE, name |-> "", err |-> "UnknownCodec"]

multicodec_remove_prefix(bytes) ==
    LET d == varint_decode(bytes)
    IN  IF ~d.ok THEN BFail("MalformedVarint")
        ELSE BOk(SubSeq(bytes, Len(varint_encode(d.val)) + 1, Len(bytes)))

(***************************************************************************)
(* multihash: <hash-function-varint><digest-length-varint><digest>         *)
(***************************************************************************)
HashTable == [name \in {"sha1", "sha2-256", "sha2-512", "blake2b-8"} |->
                CASE name = "sha1" -> 17
                  [] name = "sha2-256" -> 18
                  [] name = "sha2-512" -> 19
                  [] name = "blake2b-8" -> 45569]

HashCodes == {HashTable[n] : n \in DOMAIN HashTable}

\* mh.decode as a structural validator: a known hash code, a declared length,
\* and exactly that many digest bytes
mh_decode(h) ==
    LET c == varint_decode(h)
        rest == SubSeq(h, c.len + 1, Len(h))
        l == varint_decode(rest)
    IN  IF ~c.ok \/ c.val \notin HashCodes THEN FALSE
        ELSE IF ~l.ok THEN FALSE
        ELSE Len(rest) - l.len = l.val

\* what mh.decode returns for a multihash it accepts: the name of the hash
\* function and the declared length
mh_decode_info(h) ==
    LET c == varint_decode(h)
        l == varint_decode(SubSeq(h, c.len + 1, Len(h)))
    IN  [name |-> CHOOSE n \in DOMAIN HashTable : HashTable[n] = c.val,
         length |-> l.val]

\* multihash.encode(digest, name, length): length is <<>> (None: the length
\* of the digest is declared) or <<l>>
mh_encode(digest, name, length) ==
    IF name \notin DOMAIN HashTable THEN BFail("UnknownHashType")
    ELSE BOk(varint_encode(HashTable[name])
             \o varint_encode(IF length = <<>> THEN Len(digest) ELSE length[1])
             \o digest)

\* hashlib stand-ins: a digest of fixed size per algorithm (2 and 3 bytes
\* for the 32 and 64 of sha2-256 and sha2-512) that depends on every byte
\* of the data
RECURSIVE Fold(_)
Fold(d) == IF d = <<>> THEN 7 ELSE (31 * Fold(Tail(d)) + Head(d) + 1) % 256

sha256(d) == <<Fold(d), (Fold(d) + Len(d)) % 256>>

sha512(d) == <<(Fold(d) + 128) % 256, Len(d) % 256, Fold(d)>>

(***************************************************************************)
(* base58 (bitcoin alphabet): leading zero bytes are kept as '1'           *)
(***************************************************************************)
B58Alphabet ==
    <<49, 50, 51, 52, 53, 54, 55, 56, 57, 65, 66, 67, 68, 69, 70, 71, 72, 74,
      75, 76, 77, 78, 80, 81, 82, 83, 84, 85, 86, 87, 88, 89, 90, 97, 98, 99,
      100, 101, 102, 103, 104, 105, 106, 107, 109, 110, 111, 112, 113, 114,
      115, 116, 117, 118, 119, 120, 121, 122>>

Digits(alphabet, ds) == [i \in 1..Len(ds) |-> alphabet[ds[i] + 1]]
Values(alphabet, text) == [i \in 1..Len(text) |-> IndexOf(alphabet, text[i]) - 1]

b58encode(b) ==
    Repeat(B58Alphabet[1], LeadingCount(b, 0))
        \o Digits(B58Alphabet, ToBase(b, 256, Len(B58Alphabet)))

b58decode(text) ==
    IF ~(Range(text) \subseteq Range(B58Alphabet)) THEN BFail("InvalidBase58")
    ELSE BOk(Repeat(0, LeadingCount(text, B58Alphabet[1]))
               \o ToBase(Values(B58Alphabet, text), Len(B58Alphabet), 256))

(***************************************************************************)
(* multibase: a one-byte prefix code names the encoding of the rest        *)
(***************************************************************************)
OctAlphabet == <<48, 49, 50, 51, 52, 53, 54, 55>>
HexAlphabet == <<48, 49, 50, 51, 52, 53, 54, 55, 56, 57, 97, 98, 99, 100, 101, 102>>

\* kind: "identity", "basestring" (the bytes as one big number in the
\* alphabet's base) or "base16" (two hex digits per byte)
Encodings ==
    { [encoding |-> "identity", code |-> 0, kind |-> "identity", digits |-> <<>>],
      [encoding |-> "base8", code |-> 55, kind |-> "basestring", digits |-> OctAlphabet],
      [encoding |-> "base16", code |-> 102, kind |-> "base16", digits |-> HexAlphabet],
      [encoding |-> "base58btc", code |-> 122, kind |-> "basestring", digits |-> B58Alphabet] }

EncodingNames == {e.encoding : e \in Encodings}

\* an encoding whose prefix code is the byte 1: none is registered; it stands
\* for a registry that answers "encoded" for a buffer starting with 1
PrefixOneEncoding ==
    [encoding |-> "prefix-one", code |-> 1, kind |-> "identity", digits |-> <<>>]

VARIABLE registry   \* the encodings the multibase registry knows

RECURSIVE HexPairs(_)
HexPairs(vs) ==
    IF vs = <<>> THEN <<>>
    ELSE <<16 * vs[1] + vs[2]>> \o HexPairs(SubSeq(vs, 3, Len(vs)))

converter_encode(e, b) ==
    CASE e.kind = "identity" -> b
      [] e.kind = "base16" ->
            Digits(e.digits, [i \in 1..(2 * Len(b)) |->
                        IF i % 2 = 1 THEN b[(i + 1) \div 2] \div 16
                        ELSE b[i \div 2] % 16])
      [] OTHER ->
            LET ds == ToBase(b, 256, Len(e.digits))
            IN  Digits(e.digits, IF ds = <<>> THEN <<0>> ELSE ds)

converter_decode(e, text) ==
    CASE e.kind = "identity" -> BOk(text)
      [] e.kind = "base16" ->
            IF ~(Range(text) \subseteq Range(e.digits)) \/ Len(text) % 2 = 1
            THEN BFail("InvalidMultibase")
            ELSE BOk(HexPairs(Values(e.digits, text)))
      [] OTHER ->
            IF ~(Range(text) \subseteq Range(e.digits)) THEN BFail("InvalidMultibase")
            ELSE BOk(ToBase(Values(e.digits, text), Len(e.digits), 256))

multibase_is_encoded(b) == b # <<>> /\ \E e \in registry : e.code = b[1]

multibase_get_codec(b) == CHOOSE e \in registry : e.code = b[1]

multibase_encode(name, b) ==
    IF name \notin {x.encoding : x \in registry} THEN BFail("UnknownEncoding")
    ELSE LET e == CHOOSE x \in registry : x.encoding = name
         IN  BOk(<<e.code>> \o converter_encode(e, b))

multibase_decode(b) ==
    IF ~multibase_is_encoded(b) THEN BFail("UnknownEncoding")
    ELSE converter_decode(multibase_get_codec(b), Tail(b))

(***************************************************************************)
(* The CID value type (src/cid/cid.py).  A CID object is its class and the *)
(* three stored fields; NoCid stands for "no object".                      *)
(***************************************************************************)
NoCid == [cls |-> "none", version |-> -1, codec |-> "", multihash |-> <<>>]

\* results of operations that yield a CID; branch is the arm of from_bytes
\* that produced the result ("none" outside the parser)
COk(c, br) == [ok |-> TRUE, cid |-> c, err |-> "", branch |-> br]
CFail(e, br) == [ok |-> FALSE, cid |-> NoCid, err |-> e, branch |-> br]
NoRes == [ok |-> FALSE, cid |-> NoCid, err |-> "", branch |-> "none"]

BaseCID_init(cls, version, codec, multihash) ==
    [cls |-> cls, version |-> version, codec |-> codec, multihash |-> multihash]

CIDv0_CODEC == "dag-pb"

CIDv0(multihash) == BaseCID_init("CIDv0", 0, CIDv0_CODEC, multihash)

CIDv1(codec, multihash) == BaseCID_init("CIDv1", 1, codec, multihash)

\* variant: the version is left out of the comparison
BaseCID_eq_no_version(a, b) ==
    /\ a.codec = b.codec
    /\ a.multihash = b.multihash

BaseCID_eq(a, b) ==
    /\ a.version = b.version
    /\ a.codec = b.codec
    /\ a.multihash = b.multihash

BaseCID_hash(a) == <<a.version, a.codec, a.multihash>>

CIDv0_buffer(c) == BOk(c.multihash)

\* variant: the version byte and the multihash, without the codec prefix
CIDv1_buffer_no_codec(c) ==
    IF multicodec_is_codec(c.codec) THEN BOk(<<c.version>> \o c.multihash)
    ELSE BFail("UnknownCodec")

\* variant: the codec-prefixed multihash without the version byte
CIDv1_buffer_no_version(c) == multicodec_add_prefix(c.codec, c.multihash)

CIDv1_buffer(c) ==
    LET p == multicodec_add_prefix(c.codec, c.multihash)
    IN  IF p.ok THEN BOk(<<c.version>> \o p.val) ELSE p

buffer(c) == IF c.cls = "CIDv0" THEN CIDv0_buffer(c) ELSE CIDv1_buffer(c)

\* self.buffer.decode("latin-1"): the character of each byte has the number
\* of the byte, and the call fails as buffer does
key_string(c) == buffer(c)

\* encoding "default" is a call without the argument
CIDv0_encode(c, encoding) ==
    LET b == CIDv0_buffer(c) IN BOk(b58encode(b.val))

CIDv1_encode(c, encoding) ==
    LET b == CIDv1_buffer(c)
    IN  IF ~b.ok THEN b
        ELSE multibase_encode(IF encoding = "default" THEN "base58btc" ELSE encoding, b.val)

encode(c, encoding) ==
    IF c.cls = "CIDv0" THEN CIDv0_encode(c, encoding) ELSE CIDv1_encode(c, encoding)

to_v1(c) == COk(CIDv1(CIDv0_CODEC, c.multihash), "none")

\* variant: the codec is not checked
to_v0_unchecked(c) == COk(CIDv0(c.multihash), "none")

to_v0(c) ==
    IF c.codec # CIDv0_CODEC THEN CFail("CodecVersionMismatch", "none")
    ELSE COk(CIDv0(c.multihash), "none")

(***************************************************************************)
(* make_cid with three arguments: the validating constructor               *)
(***************************************************************************)
\* variant: the multihash is validated at construction
make_cid3_validating(version, codec, multihash) ==
    IF version \notin {0, 1} THEN CFail("InvalidVersion", "none")
    ELSE IF ~multicodec_is_codec(codec) THEN CFail("UnknownCodec", "none")
    ELSE IF ~mh_decode(multihash) THEN CFail("InvalidMultihashStructure", "none")
    ELSE IF version = 0
         THEN IF codec # CIDv0_CODEC THEN CFail("CodecVersionMismatch", "none")
              ELSE COk(CIDv0(multihash), "none")
         ELSE COk(CIDv1(codec, multihash), "none")

\* variant: the version 0 codec is checked before the registry
make_cid3_codec_first(version, codec, multihash) ==
    IF version \notin {0, 1} THEN CFail("InvalidVersion", "none")
    ELSE IF version = 0 /\ codec # CIDv0_CODEC THEN CFail("CodecVersionMismatch", "none")
    ELSE IF ~multicodec_is_codec(codec) THEN CFail("UnknownCodec", "none")
    ELSE IF version = 0 THEN COk(CIDv0(multihash), "none")
         ELSE COk(CIDv1(codec, multihash), "none")

make_cid3(version, codec, multihash) ==
    IF version \notin {0, 1} THEN CFail("InvalidVersion", "none")
    ELSE IF ~multicodec_is_codec(codec) THEN CFail("UnknownCodec", "none")
    ELSE IF version = 0
         THEN IF codec # CIDv0_CODEC THEN CFail("CodecVersionMismatch", "none")
              ELSE COk(CIDv0(multihash), "none")
         ELSE COk(CIDv1(codec, multihash), "none")

(***************************************************************************)
(* The parser                                                              *)
(***************************************************************************)
IpfsSegment == <<47, 105, 112, 102, 115, 47>>
PathStops == {47, 63, 35}

StartsAt(s, i, t) == i + Len(t) - 1 <= Len(s) /\ SubSeq(s, i, i + Len(t) - 1) = t

RECURSIVE RunEnd(_, _)
RunEnd(s, i) == IF i <= Len(s) /\ s[i] \notin PathStops THEN RunEnd(s, i + 1) ELSE i - 1

\* re.search of /ipfs/([^/?#]+): the leftmost /ipfs/ followed by a character
\* that is none of / ? #.  The two other patterns end in the same expression,
\* so they match only where this one, tried first, has matched already.
\* variant: everything after the segment is returned
parse_ipfs_path_to_end(path) ==
    LET hits == {i \in 1..Len(path) :
                    /\ StartsAt(path, i, IpfsSegment)
                    /\ i + Len(IpfsSegment) <= Len(path)
                    /\ path[i + Len(IpfsSegment)] \notin PathStops}
    IN  IF hits = {} THEN path
        ELSE LET i == CHOOSE x \in hits : \A y \in hits : x <= y
             IN  SubSeq(path, i + Len(IpfsSegment), Len(path))

parse_ipfs_path(path) ==
    LET hits == {i \in 1..Len(path) :
                    /\ StartsAt(path, i, IpfsSegment)
                    /\ i + Len(IpfsSegment) <= Len(path)
                    /\ path[i + Len(IpfsSegment)] \notin PathStops}
    IN  IF ~\E i \in 1..Len(path) : StartsAt(path, i, IpfsSegment) THEN path
        ELSE IF hits = {} THEN path
        ELSE LET i == CHOOSE x \in hits : \A y \in hits : x <= y
             IN  SubSeq(path, i + Len(IpfsSegment), RunEnd(path, i + Len(IpfsSegment)))

\* variant: the multihash is not validated
from_bytes_finish_unchecked(version, codec, multihash, br) ==
    LET r == make_cid3(version, codec, multihash)
    IN  [r EXCEPT !.branch = br]

\* the tail of from_bytes: validate the multihash, then construct
from_bytes_finish(version, codec, multihash, br) ==
    IF ~mh_decode(multihash) THEN CFail("InvalidMultihashStructure", br)
    ELSE LET r == make_cid3(version, codec, multihash)
         IN  [r EXCEPT !.branch = br]

\* version byte, then <codec-prefix><multihash> split by the codec registry
from_bytes_split(version, data, br) ==
    LET codec == multicodec_get_codec(data)
        multihash == multicodec_remove_prefix(data)
    IN  IF ~codec.ok THEN CFail(codec.err, br)
        ELSE IF ~multihash.ok THEN CFail(multihash.err, br)
        ELSE from_bytes_finish(version, codec.name, multihash.val, br)

\* variant: the first byte is not compared with 0 before asking the registry
from_bytes_no_zero_guard(cidbytes) ==
    IF Len(cidbytes) < 2 THEN CFail("TooShort", "none")
    ELSE IF multibase_is_encoded(cidbytes)
    THEN LET cid == multibase_decode(cidbytes)
         IN  IF ~cid.ok THEN CFail(cid.err, "multibase")
             ELSE IF Len(cid.val) < 2 THEN CFail("InvalidCIDLength", "multibase")
             ELSE from_bytes_split(cid.val[1], Tail(cid.val), "multibase")
    ELSE IF cidbytes[1] \in {0, 1}
    THEN from_bytes_split(cidbytes[1], Tail(cidbytes), "raw")
    ELSE LET multihash == b58decode(cidbytes)
         IN  IF ~multihash.ok THEN CFail("InvalidBase58Multihash", "base58")
             ELSE from_bytes_finish(0, CIDv0_CODEC, multihash.val, "base58")

\* variant: a decoded result of one byte passes the length check
from_bytes_decoded_min1(cidbytes) ==
    IF Len(cidbytes) < 2 THEN CFail("TooShort", "none")
    ELSE IF cidbytes[1] # 0 /\ multibase_is_encoded(cidbytes)
    THEN LET cid == multibase_decode(cidbytes)
         IN  IF ~cid.ok THEN CFail(cid.err, "multibase")
             ELSE IF Len(cid.val) < 1 THEN CFail("InvalidCIDLength", "multibase")
             ELSE from_bytes_split(cid.val[1], Tail(cid.val), "multibase")
    ELSE IF cidbytes[1] \in {0, 1}
    THEN from_bytes_split(cidbytes[1], Tail(cidbytes), "raw")
    ELSE LET multihash == b58decode(cidbytes)
         IN  IF ~multihash.ok THEN CFail("InvalidBase58Multihash", "base58")
             ELSE from_bytes_finish(0, CIDv0_CODEC, multihash.val, "base58")

from_bytes(cidbytes) ==
    IF Len(cidbytes) < 2 THEN CFail("TooShort", "none")
    ELSE IF cidbytes[1] # 0 /\ multibase_is_encoded(cidbytes)
    THEN LET cid == multibase_decode(cidbytes)
         IN  IF ~cid.ok THEN CFail(cid.err, "multibase")
             ELSE IF Len(cid.val) < 2 THEN CFail("InvalidCIDLength", "multibase")
             ELSE from_bytes_split(cid.val[1], Tail(cid.val), "multibase")
    ELSE IF cidbytes[1] \in {0, 1}
    THEN from_bytes_split(cidbytes[1], Tail(cidbytes), "raw")
    ELSE LET multihash == b58decode(cidbytes)
         IN  IF ~multihash.ok THEN CFail("InvalidBase58Multihash", "base58")
             ELSE from_bytes_finish(0, CIDv0_CODEC, multihash.val, "base58")

\* variant: the text is parsed as it is, without the path extraction
from_string_no_path(cidstr) == from_bytes(cidstr.val)

\* an argument is [type, val]: a str (its characters, all ASCII here, so that
\* UTF-8 encoding keeps them) or bytes
from_string(cidstr) ==
    from_bytes(IF cidstr.type = "str" THEN parse_ipfs_path(cidstr.val) ELSE cidstr.val)

make_cid(args) ==
    IF Len(args) = 1
    THEN IF args[1].type = "str" THEN from_string(args[1])
         ELSE IF args[1].type = "bytes" THEN from_bytes(args[1].val)
         ELSE CFail("InvalidArgument", "none")
    ELSE IF Len(args) = 3 THEN make_cid3(args[1], args[2], args[3])
    ELSE CFail("InvalidArguments", "none")

\* the failures raised as ValueError: every raise of cid.py, and the
\* failures of the collaborators (multibase, multicodec, multihash)
ValueErrors ==
    {"TooShort", "InvalidCIDLength", "InvalidBase58Multihash",
     "InvalidMultihashStructure", "InvalidVersion", "UnknownCodec",
     "CodecVersionMismatch", "InvalidArgument", "InvalidArguments",
     "InvalidMultibase", "MalformedVarint"}

\* the result of a call that returns a truth value: [ok, ret, err]
TOk(ret) == [ok |-> TRUE, ret |-> ret, err |-> ""]
TFail(err) == [ok |-> FALSE, ret |-> FALSE, err |-> err]

\* variant: only the failure of the length check is caught
is_cid_catch_too_short(cidstr) ==
    LET r == make_cid(<<cidstr>>)
    IN  IF r.ok THEN TOk(TRUE)
        ELSE IF r.err = "TooShort" THEN TOk(FALSE)
        ELSE TFail(r.err)

\* try: return bool(make_cid(cidstr)) / except ValueError: return False;
\* a CID object has no __bool__ and no __len__, so bool of it is True
is_cid(cidstr) ==
    LET r == make_cid(<<cidstr>>)
    IN  IF r.ok THEN TOk(TRUE)
        ELSE IF r.err \in ValueErrors THEN TOk(FALSE)
        ELSE TFail(r.err)

\* the result of a call that returns a name: [ok, name, err]
NOk(name) == [ok |-> TRUE, name |-> name, err |-> ""]
NFail(err) == [ok |-> FALSE, name |-> "", err |-> err]

\* the characters Q and m
Qm == <<81, 109>>
\* len(cid_str) == 46: the length of the base58 text of a CIDv0 with a
\* 32-byte digest
CIDv0_TEXT_LEN == 46

\* variant: every text that starts with Qm is taken for a version 0 text
extract_encoding_any_qm(cid_str) ==
    IF Len(cid_str) < 2 THEN NFail("TooShort")
    ELSE IF SubSeq(cid_str, 1, 2) = Qm THEN NOk("base58btc")
    ELSE IF multibase_is_encoded(<<cid_str[1]>>)
    THEN NOk(multibase_get_codec(<<cid_str[1]>>).encoding)
    ELSE NFail("UnknownEncoding")

extract_encoding(cid_str) ==
    IF Len(cid_str) < 2 THEN NFail("TooShort")
    ELSE IF Len(cid_str) = CIDv0_TEXT_LEN /\ SubSeq(cid_str, 1, 2) = Qm
    THEN NOk("base58btc")
    ELSE IF multibase_is_encoded(<<cid_str[1]>>)
    THEN NOk(multibase_get_codec(<<cid_str[1]>>).encoding)
    ELSE NFail("UnknownEncoding")

\* from_bytes, then the length of the input against the length of the
\* canonical buffer of the CID it returned
from_bytes_strict(cidbytes) ==
    LET r == from_bytes(cidbytes)
    IN  IF ~r.ok THEN r
        ELSE LET expected_len ==
                     IF r.cid.version = 0 THEN Len(r.cid.multihash)
                     ELSE 1 + Len(multicodec_get_prefix(r.cid.codec).val)
                            + Len(r.cid.multihash)
             IN  IF Len(cidbytes) > expected_len
                 THEN CFail("TrailingBytes", r.branch)
                 ELSE r

\* reader.read(n) at offset pos of the stream: at most n bytes, fewer when
\* the stream ends
read(stream, pos, n) ==
    SubSeq(stream, pos + 1, IF pos + n <= Len(stream) THEN pos + n ELSE Len(stream))

\* the result of from_reader: the result of from_bytes and the number of
\* bytes read (-1 when it raised)
RRes(r, n) ==
    [ok |-> r.ok, cid |-> r.cid, err |-> r.err, branch |-> r.branch,
     bytes_read |-> IF r.ok THEN n ELSE -1]

\* the offset after the codec varint that starts at offset 1: the bytes are
\* read one by one up to the first one whose high bit is clear (0: the
\* stream ends first)
codec_end(stream) ==
    IF \E i \in 2..Len(stream) : stream[i] < 128
    THEN CHOOSE i \in 2..Len(stream) :
            stream[i] < 128 /\ \A j \in 2..(i - 1) : stream[j] >= 128
    ELSE 0

\* variant: the codec is read as one byte, whatever its high bit
from_reader_one_byte_codec(stream) ==
    LET first_byte == read(stream, 0, 1)
    IN  IF first_byte = <<>> THEN RRes(CFail("UnexpectedEof", "none"), 0)
        ELSE IF first_byte[1] = 0
        THEN LET peek == read(stream, 1, 2)
             IN  IF Len(peek) < 2 THEN RRes(CFail("UnexpectedEof", "none"), 0)
                 ELSE LET multihash_bytes ==
                              first_byte \o peek \o read(stream, 3, peek[2])
                      IN  RRes(from_bytes(multihash_bytes), Len(multihash_bytes))
        ELSE IF first_byte[1] = 1
        THEN LET e == IF Len(stream) >= 2 THEN 2 ELSE 0
                 peek == read(stream, e, 2)
             IN  IF e = 0 THEN RRes(CFail("UnexpectedEof", "none"), 0)
                 ELSE IF Len(peek) < 2 THEN RRes(CFail("UnexpectedEof", "none"), 0)
                 ELSE LET multihash_bytes == read(stream, e + 2, peek[2])
                          codec_bytes == SubSeq(stream, 1, e) \o peek \o multihash_bytes
                      IN  IF Len(multihash_bytes) < peek[2]
                          THEN RRes(CFail("UnexpectedEof", "none"), 0)
                          ELSE RRes(from_bytes(codec_bytes), Len(codec_bytes))
        ELSE RRes(CFail("InvalidVersion", "none"), 0)

from_reader(stream) ==
    LET first_byte == read(stream, 0, 1)
    IN  IF first_byte = <<>> THEN RRes(CFail("UnexpectedEof", "none"), 0)
        ELSE IF first_byte[1] = 0
        THEN LET peek == read(stream, 1, 2)
             IN  IF Len(peek) < 2 THEN RRes(CFail("UnexpectedEof", "none"), 0)
                 ELSE LET multihash_bytes ==
                              first_byte \o peek \o read(stream, 3, peek[2])
                      IN  RRes(from_bytes(multihash_bytes), Len(multihash_bytes))
        ELSE IF first_byte[1] = 1
        THEN LET e == codec_end(stream)
                 peek == read(stream, e, 2)
             IN  IF e = 0 THEN RRes(CFail("UnexpectedEof", "none"), 0)
                 ELSE IF Len(peek) < 2 THEN RRes(CFail("UnexpectedEof", "none"), 0)
                 ELSE LET multihash_bytes == read(stream, e + 2, peek[2])
                          codec_bytes == SubSeq(stream, 1, e) \o peek \o multihash_bytes
                      IN  IF Len(multihash_bytes) < peek[2]
                          THEN RRes(CFail("UnexpectedEof", "none"), 0)
                          ELSE RRes(from_bytes(codec_bytes), Len(codec_bytes))
        ELSE RRes(CFail("InvalidVersion", "none"), 0)

\* variant: the reader hands out its whole content at the first read
reader_pos_whole_stream(stream) == Len(stream)

\* the position of the reader after from_reader(stream): every read call
\* of from_reader advances it by the bytes it returned, also when
\* from_reader raises afterwards
reader_pos(stream) ==
    LET first_byte == read(stream, 0, 1)
    IN  IF first_byte = <<>> THEN 0
        ELSE IF first_byte[1] = 0
        THEN LET peek == read(stream, 1, 2)
             IN  IF Len(peek) < 2 THEN 1 + Len(peek)
                 ELSE 3 + Len(read(stream, 3, peek[2]))
        ELSE IF first_byte[1] = 1
        THEN LET e == codec_end(stream)
                 peek == read(stream, e, 2)
             IN  IF e = 0 THEN Len(stream)
                 ELSE IF Len(peek) < 2 THEN e + Len(peek)
                 ELSE e + 2 + Len(read(stream, e + 2, peek[2]))
        ELSE 1

(***************************************************************************)
(* Prefix: version, codec, hash type and hash length                       *)
(***************************************************************************)
_encode_varint(value) ==
    IF value < 0 THEN BFail("MalformedVarint") ELSE BOk(varint_encode(value))

\* the value of the bytes taken as 7-bit groups, low group first
RECURSIVE Groups(_)
Groups(b) == IF b = <<>> THEN 0 ELSE (Head(b) % 128) + 128 * Groups(Tail(b))

\* [ok, value, bytes_consumed]: the loop stops at the first byte with a clear
\* high bit or at the end of the data, and gives up at the tenth byte with
\* the high bit set
_decode_varint(data, offset) ==
    IF offset >= Len(data) THEN [ok |-> FALSE, value |-> 0, bytes_consumed |-> 0]
    ELSE LET stop == IF \E i \in (offset + 1)..Len(data) : data[i] < 128
                     THEN CHOOSE i \in (offset + 1)..Len(data) :
                             data[i] < 128
                             /\ \A j \in (offset + 1)..(i - 1) : data[j] >= 128
                     ELSE Len(data)
             continued == Cardinality({i \in (offset + 1)..stop : data[i] >= 128})
         IN  IF continued >= 10
             THEN [ok |-> FALSE, value |-> 0, bytes_consumed |-> 0]
             ELSE [ok |-> TRUE, value |-> Groups(SubSeq(data, offset + 1, stop)),
                   bytes_consumed |-> stop - offset]

NoPrefix == [version |-> -1, codec |-> "", mh_type |-> "", mh_length |-> -1]

\* results of the operations of Prefix: a Prefix, or a CID (sum)
POk(p) == [ok |-> TRUE, prefix |-> p, cid |-> NoCid, err |-> ""]
PCid(c) == [ok |-> TRUE, prefix |-> NoPrefix, cid |-> c, err |-> ""]
PFail(e) == [ok |-> FALSE, prefix |-> NoPrefix, cid |-> NoCid, err |-> e]
NoPRes == PFail("")

\* variant: a version 0 prefix takes any registered codec
Prefix_init_any_codec(version, codec, mh_type, mh_length) ==
    IF version \notin {0, 1} THEN PFail("InvalidVersion")
    ELSE IF ~multicodec_is_codec(codec) THEN PFail("UnknownCodec")
    ELSE POk([version |-> version, codec |-> codec,
              mh_type |-> mh_type, mh_length |-> mh_length])

Prefix_init(version, codec, mh_type, mh_length) ==
    IF version \notin {0, 1} THEN PFail("InvalidVersion")
    ELSE IF version = 0 /\ codec # "dag-pb" THEN PFail("CodecVersionMismatch")
    ELSE IF ~multicodec_is_codec(codec) THEN PFail("UnknownCodec")
    ELSE POk([version |-> version, codec |-> codec,
              mh_type |-> mh_type, mh_length |-> mh_length])

\* variant: the digest is always the sha2-256 one
Prefix_sum_one_digest(self, data) ==
    IF self.mh_type \notin {"sha2-256", "sha2-512"}
    THEN PFail("UnsupportedHashAlgorithm")
    ELSE LET digest == sha256(data)
             mh_length == IF self.mh_length = -1 THEN <<>> ELSE <<self.mh_length>>
             mhash == mh_encode(digest, self.mh_type, mh_length)
         IN  IF ~mhash.ok THEN PFail(mhash.err)
             ELSE IF self.version = 0 THEN PCid(CIDv0(mhash.val))
             ELSE PCid(CIDv1(self.codec, mhash.val))

Prefix_sum(self, data) ==
    IF self.mh_type \notin {"sha2-256", "sha2-512"}
    THEN PFail("UnsupportedHashAlgorithm")
    ELSE LET digest == IF self.mh_type = "sha2-256" THEN sha256(data) ELSE sha512(data)
             mh_length == IF self.mh_length = -1 THEN <<>> ELSE <<self.mh_length>>
             mhash == mh_encode(digest, self.mh_type, mh_length)
         IN  IF ~mhash.ok THEN PFail(mhash.err)
             ELSE IF self.version = 0 THEN PCid(CIDv0(mhash.val))
             ELSE PCid(CIDv1(self.codec, mhash.val))

mh_codes == [name \in {"sha1", "sha2-256", "sha2-512", "sha3-224", "sha3-256",
                       "sha3-512", "blake2b-256", "blake2b-512"} |->
                CASE name = "sha1" -> 17
                  [] name = "sha2-256" -> 18
                  [] name = "sha2-512" -> 19
                  [] name = "sha3-224" -> 23
                  [] name = "sha3-256" -> 22
                  [] name = "sha3-512" -> 20
                  [] name = "blake2b-256" -> 45600
                  [] name = "blake2b-512" -> 45632]

\* [ok, code]
_mh_type_to_code(mh_type) ==
    IF mh_type \notin DOMAIN mh_codes THEN [ok |-> FALSE, code |-> 0]
    ELSE [ok |-> TRUE, code |-> mh_codes[mh_type]]

\* [ok, name]
_mh_code_to_type(mh_code) ==
    IF \E n \in DOMAIN mh_codes : mh_codes[n] = mh_code
    THEN [ok |-> TRUE, name |-> CHOOSE n \in DOMAIN mh_codes : mh_codes[n] = mh_code]
    ELSE [ok |-> FALSE, name |-> ""]

\* variant: the length is written as it is when it is not negative, and the
\* sentinel as the byte 127
Prefix_to_bytes_sentinel_127(self) ==
    LET codec_prefix == multicodec_get_prefix(self.codec)
        codec_code == _decode_varint(codec_prefix.val, 0)
        mh_type_code == _mh_type_to_code(self.mh_type)
    IN  IF ~codec_prefix.ok THEN BFail(codec_prefix.err)
        ELSE IF ~codec_code.ok THEN BFail("MalformedVarint")
        ELSE IF ~mh_type_code.ok THEN BFail("UnknownHashType")
        ELSE BOk(<<self.version>>
                 \o _encode_varint(codec_code.value).val
                 \o _encode_varint(mh_type_code.code).val
                 \o _encode_varint(IF self.mh_length >= 0
                                    THEN self.mh_length ELSE 127).val)

\* <version><codec-varint><mh-type-varint><mh-length-varint>
Prefix_to_bytes(self) ==
    LET codec_prefix == multicodec_get_prefix(self.codec)
        codec_code == _decode_varint(codec_prefix.val, 0)
        mh_type_code == _mh_type_to_code(self.mh_type)
    IN  IF ~codec_prefix.ok THEN BFail(codec_prefix.err)
        ELSE IF ~codec_code.ok THEN BFail("MalformedVarint")
        ELSE IF ~mh_type_code.ok THEN BFail("UnknownHashType")
        ELSE BOk(<<self.version>>
                 \o _encode_varint(codec_code.value).val
                 \o _encode_varint(mh_type_code.code).val
                 \o _encode_varint(IF self.mh_length >= 0
                                    THEN self.mh_length ELSE 0).val)

Prefix_from_bytes(data) ==
    IF Len(data) < 1 THEN PFail("TooShort")
    ELSE IF data[1] \notin {0, 1} THEN PFail("InvalidVersion")
    ELSE LET version == data[1]
             c == _decode_varint(data, 1)
             codec == multicodec_get_codec(_encode_varint(c.value).val)
             t == _decode_varint(data, 1 + c.bytes_consumed)
             mh_type == _mh_code_to_type(t.value)
             l == _decode_varint(data, 1 + c.bytes_consumed + t.bytes_consumed)
         IN  IF ~c.ok THEN PFail("MalformedVarint")
             ELSE IF ~codec.ok THEN PFail("UnknownCodec")
             ELSE IF ~t.ok THEN PFail("MalformedVarint")
             ELSE IF ~mh_type.ok THEN PFail("UnknownHashCode")
             ELSE IF ~l.ok THEN PFail("MalformedVarint")
             ELSE Prefix_init(version, codec.name, mh_type.name,
                              IF l.value = 0 THEN -1 ELSE l.value)

Prefix_eq(self, other) ==
    /\ self.version = other.version
    /\ self.codec = other.codec
    /\ self.mh_type = other.mh_type
    /\ self.mh_length = other.mh_length

Prefix_v0 == Prefix_init(0, "dag-pb", "sha2-256", -1)

Prefix_v1(codec, mh_type, mh_length) == Prefix_init(1, codec, mh_type, mh_length)

\* cid.prefix(): mh.decode raises for bytes that are no multihash
BaseCID_prefix(self) ==
    IF ~mh_decode(self.multihash) THEN PFail("InvalidMultihashStructure")
    ELSE LET mh_info == mh_decode_info(self.multihash)
         IN  Prefix_init(self.version, self.codec, mh_info.name, mh_info.length)

(***************************************************************************)
(* Builders: V0Builder has no attributes (codec dag-pb and hash sha2-256   *)
(* are fixed in its methods), V1Builder holds codec, mh_type and mh_length *)
(***************************************************************************)
V0Builder_init == [cls |-> "V0Builder", codec |-> "", mh_type |-> "", mh_length |-> -1]

V1Builder_init(codec, mh_type, mh_length) ==
    [cls |-> "V1Builder", codec |-> codec, mh_type |-> mh_type,
     mh_length |-> mh_length]

V0Builder_sum(self, data) == PCid(CIDv0(mh_encode(sha256(data), "sha2-256", <<>>).val))

V1Builder_sum(self, data) ==
    IF self.mh_type \notin {"sha2-256", "sha2-512"}
    THEN PFail("UnsupportedHashAlgorithm")
    ELSE LET digest == IF self.mh_type = "sha2-256" THEN sha256(data) ELSE sha512(data)
             mh_length == IF self.mh_length = -1 THEN <<>> ELSE <<self.mh_length>>
             mhash == mh_encode(digest, self.mh_type, mh_length)
         IN  IF ~mhash.ok THEN PFail(mhash.err)
             ELSE PCid(CIDv1(self.codec, mhash.val))

Builder_sum(self, data) ==
    IF self.cls = "V0Builder" THEN V0Builder_sum(self, data)
    ELSE V1Builder_sum(self, data)

V0Builder_get_codec(self) == "dag-pb"

V1Builder_get_codec(self) == self.codec

Builder_get_codec(self) ==
    IF self.cls = "V0Builder" THEN V0Builder_get_codec(self)
    ELSE V1Builder_get_codec(self)

\* with_codec returns [same, builder]: the receiver itself (same), or a new
\* object
V0Builder_with_codec(self, codec) ==
    IF codec = "dag-pb" THEN [same |-> TRUE, builder |-> self]
    ELSE [same |-> FALSE, builder |-> V1Builder_init(codec, "sha2-256", -1)]

\* variant: the new builder starts from the default length
V1Builder_with_codec_default_length(self, codec) ==
    IF codec = self.codec THEN [same |-> TRUE, builder |-> self]
    ELSE [same |-> FALSE, builder |-> V1Builder_init(codec, self.mh_type, -1)]

\* variant: dag-pb brings back a V0Builder
V1Builder_with_codec_back_to_v0(self, codec) ==
    IF codec = self.codec THEN [same |-> TRUE, builder |-> self]
    ELSE IF codec = "dag-pb" THEN [same |-> FALSE, builder |-> V0Builder_init]
    ELSE [same |-> FALSE,
          builder |-> V1Builder_init(codec, self.mh_type, self.mh_length)]

V1Builder_with_codec(self, codec) ==
    IF codec = self.codec THEN [same |-> TRUE, builder |-> self]
    ELSE [same |-> FALSE,
          builder |-> V1Builder_init(codec, self.mh_type, self.mh_length)]

Builder_with_codec(self, codec) ==
    IF self.cls = "V0Builder" THEN V0Builder_with_codec(self, codec)
    ELSE V1Builder_with_codec(self, codec)

(***************************************************************************)
(* CIDSet: a Python set of CID objects. An object is [oid, cid]: its       *)
(* identity and its CID; the set finds an element by __hash__ and __eq__   *)
(***************************************************************************)
\* variant: an element is found by identity
set_contains_by_identity(s, c) == \E x \in s : x.oid = c.oid

\* c in s
set_contains(s, c) ==
    \E x \in s : BaseCID_hash(x.cid) = BaseCID_hash(c.cid) /\ BaseCID_eq(x.cid, c.cid)

\* s.add(c): an equal element already in the set stays
set_add(s, c) == IF set_contains(s, c) THEN s ELSE s \cup {c}

\* s.discard(c)
set_discard(s, c) ==
    {x \in s : ~(BaseCID_hash(x.cid) = BaseCID_hash(c.cid) /\ BaseCID_eq(x.cid, c.cid))}

\* the orders in which a set may be iterated
RECURSIVE Orders(_)
Orders(s) ==
    IF s = {} THEN {<<>>}
    ELSE UNION {{<<x>> \o t : t \in Orders(s \ {x})} : x \in s}

CIDSet_init == {}

CIDSet_add(self, cid) == set_add(self, cid)

CIDSet_has(self, cid) == set_contains(self, cid)

CIDSet_remove(self, cid) == set_discard(self, cid)

CIDSet_len(self) == Cardinality(self)

CIDSet_keys(self) == Orders(self)

\* variant: the membership test of visit always finds the CID absent
visit_check_blind(self, cid) == TRUE

\* the two steps of visit: the membership test, then the insertion
visit_check(self, cid) == ~set_contains(self, cid)

visit_insert(self, cid) == set_add(self, cid)

\* variant: visit reports an insertion whatever the set holds
CIDSet_visit_always_true(self, cid) ==
    IF visit_check(self, cid) THEN [set |-> visit_insert(self, cid), ret |-> TRUE]
    ELSE [set |-> self, ret |-> TRUE]

\* [set, ret]
CIDSet_visit(self, cid) ==
    IF visit_check(self, cid) THEN [set |-> visit_insert(self, cid), ret |-> TRUE]
    ELSE [set |-> self, ret |-> FALSE]

CIDSet_for_each(self) == Orders(self)

CIDSet_iter(self) == Orders(self)

CIDSet_contains(self, cid) == set_contains(self, cid)

(***************************************************************************)
(* Inputs                                                                  *)
(***************************************************************************)
DigestBytes == {0, 255}

Digests == UNION {[1..n -> DigestBytes] : n \in 1..MaxDigestLen}

\* structurally valid multihashes of sha1 and sha2-256
ValidMultihashes ==
    {varint_encode(HashTable[n]) \o varint_encode(Len(d)) \o d :
        n \in {"sha1", "sha2-256"}, d \in Digests}

\* empty, cut after the hash code, a digest shorter than declared, an
\* unassigned hash code, an unterminated varint
InvalidMultihashes == {<<>>, <<18>>, <<18, 2, 0>>, <<127, 1, 0>>, <<128>>}

\* a structurally valid multihash whose hash code takes three bytes
WideMultihashes == {varint_encode(HashTable["blake2b-8"]) \o <<1, 0>>}

Multihashes == ValidMultihashes \cup InvalidMultihashes \cup WideMultihashes

\* codec arguments: the version 0 codec, a codec with a two-byte prefix, and
\* a name the registry does not know
CodecArgs == {"dag-pb", "dag-json", "bogus"}
VersionArgs == {0, 1, 2}
EncodingArgs == EncodingNames \cup {"default", "bogus"}

\* bytes of arbitrary input: the version bytes, the dag-pb prefix (also the
\* base58 character p), the multibase prefixes 7 and z, the digit 1, and a
\* character outside every alphabet
RawBytes == {0, 1, 112, 55, 122, 49, 33}

ShortInputs == UNION {[1..n -> RawBytes] : n \in 0..MaxRawLen}

\* <version><codec-prefix><multihash>, also for a version or a pairing the
\* constructor refuses
Frames ==
    {<<v>> \o multicodec_get_prefix(c).val \o h :
        v \in VersionArgs, c \in CodecNames, h \in Multihashes}

\* short buffers, frames, and the base16 multibase text of the frames
RawInputs ==
    LET e == CHOOSE x \in Encodings : x.encoding = "base16"
    IN  ShortInputs \cup Frames \cup {<<e.code>> \o converter_encode(e, f) : f \in Frames}

\* the longest buffer: version, a two-byte codec prefix, and a multihash
\* with a three-byte hash code or with the longest digest
MaxStream == 6 + MaxDigestLen

\* bytes that follow a buffer by accident
Extras == {<<0>>, <<255>>, <<0, 255>>}

\* hash type arguments: the two that sum implements, two more of the table
\* of Prefix (one with a three-byte code), one that only the multihash
\* package knows, and a name nobody knows
MhTypeArgs == {"sha2-256", "sha2-512", "sha1", "blake2b-256", "blake2b-8", "bogus"}

\* hash length arguments: the default sentinel, zero, short lengths, and a
\* length that takes two varint bytes
MhLengthArgs == {-1, 0, 1, 2, 200}

DataBytes == {0, 1}

DataArgs == UNION {[1..n -> DataBytes] : n \in 0..MaxDataLen}

\* CID objects whose prefix is taken
CidArgs ==
    {CIDv0(h) : h \in Multihashes}
        \cup {CIDv1(c, h) : c \in CodecArgs, h \in Multihashes}

\* bytes handed to Prefix.from_bytes: versions, the codes of dag-pb, raw,
\* sha2-256 and an unassigned code, a byte with the high bit set
PrefixBytes == {0, 1, 2, 112, 85, 18, 99, 128}

MaxPrefixLen == 4

PrefixInputs == UNION {[1..n -> PrefixBytes] : n \in 0..MaxPrefixLen}

\* arguments of V1Builder
BuilderTypeArgs == {"sha2-256", "sha2-512", "sha1"}
BuilderLengthArgs == {-1, 2}

\* the CID objects put in sets: two equal objects, one that differs from
\* them in the version only, and one with other bytes
SetObjects ==
    {[oid |-> 1, cid |-> CIDv0(<<18, 1, 0>>)],
     [oid |-> 2, cid |-> CIDv0(<<18, 1, 0>>)],
     [oid |-> 3, cid |-> CIDv1("dag-pb", <<18, 1, 0>>)],
     [oid |-> 4, cid |-> CIDv0(<<127, 1, 0>>)]}

SetKeys == {BaseCID_hash(o.cid) : o \in SetObjects}

Contexts == {1, 2}

(***************************************************************************)
(* State: the objects and values a caller holds                            *)
(***************************************************************************)
VARIABLES
    obj,        \* the CID object constructed or converted last (NoCid: none)
    prev,       \* the CID object held before obj, until obj is serialized
                \* or converted (two objects are held at most)
    origin,     \* the CID object a chain of to_v1 / to_v0 started from
    hops,       \* conversions applied to origin to get obj
    wire,       \* the bytes produced from obj, or fed in: BOk / BFail
    wireKind,   \* "none", "text" (encode), "buffer" (buffer), "raw" (fed in)
    wireEnc,    \* the encoding argument of the encode call
    call,       \* the last call: [op, n, version, codec, bytes]
    res         \* the result of the last call that yields a CID

\* a Prefix and what was made of it
VARIABLES
    pfx,        \* the Prefix held (NoPrefix: none)
    pwire,      \* the bytes of pfx (to_bytes), or bytes fed in: BOk / BFail
    pcall,      \* the last call on Prefix: [op, version, codec, mh_type,
                \* mh_length, data]
    pres        \* its result: POk / PCid / PFail

cidVars == <<registry, obj, prev, origin, hops, wire, wireKind, wireEnc, call, res>>

prefixVars == <<pfx, pwire, pcall, pres>>

\* the builder objects
VARIABLES
    builders,   \* the builder objects alive, by identity (position)
    bcall,      \* the last call on a builder: [op, self, codec, data, before]
                \* (before: the objects as they were when it was made)
    bres        \* its result: [ref, val]: the identity of the builder
                \* returned, or the value returned

builderVars == <<builders, bcall, bres>>

\* a CIDSet and its callers
VARIABLES
    cset,       \* the _set of the CIDSet
    shist,      \* what the set went through: [live, onlyVisits, trues]: the
                \* keys whose last add or visit was not followed by a remove,
                \* whether the set got visit calls only since it was made,
                \* and how often visit returned true for each key since
    scall,      \* the last call on the set: [op, cid, before]
    sres,       \* its result: [ret, n, list]
    ctx,        \* per execution context: [pc, cid, ret, calls]
    log         \* the steps of the contexts in the order they were taken

setVars == <<cset, shist, scall, sres, ctx, log>>

otherVars == <<prefixVars, builderVars, setVars>>

nonPrefixVars == <<cidVars, builderVars, setVars>>

nonBuilderVars == <<cidVars, prefixVars, setVars>>

nonSetVars == <<cidVars, prefixVars, builderVars>>

vars == <<cidVars, otherVars>>

Call(op, n, v, c, b) == [op |-> op, n |-> n, version |-> v, codec |-> c, bytes |-> b]

Held0 ==
    /\ obj = NoCid
    /\ prev = NoCid
    /\ origin = NoCid
    /\ hops = 0
    /\ wire = BFail("")
    /\ wireKind = "none"
    /\ wireEnc = ""
    /\ call = Call("init", 0, -1, "", <<>>)
    /\ res = NoRes

PCall(op, v, c, t, l, d) ==
    [op |-> op, version |-> v, codec |-> c, mh_type |-> t, mh_length |-> l,
     data |-> d]

PrefixInit ==
    /\ pfx = NoPrefix
    /\ pwire = BFail("")
    /\ pcall = PCall("init", -1, "", "", -1, <<>>)
    /\ pres = NoPRes

BCall(op, self, codec, data) ==
    [op |-> op, self |-> self, codec |-> codec, data |-> data, before |-> builders]

NoBRes == [ref |-> 0, val |-> PFail("")]

BuilderInit ==
    /\ builders = <<>>
    /\ bcall = [op |-> "init", self |-> 0, codec |-> "", data |-> <<>>,
                before |-> <<>>]
    /\ bres = NoBRes

NoObject == [oid |-> 0, cid |-> NoCid]

SCall(op, c) == [op |-> op, cid |-> c, before |-> cset]

SRes(ret, n, list) == [ret |-> ret, n |-> n, list |-> list]

NoSRes == SRes(FALSE, -1, <<>>)

FreshHist == [live |-> {}, onlyVisits |-> TRUE, trues |-> [k \in SetKeys |-> 0]]

SetInit ==
    /\ cset = CIDSet_init
    /\ shist = FreshHist
    /\ scall = [op |-> "init", cid |-> NoObject, before |-> {}]
    /\ sres = NoSRes
    /\ ctx = [t \in Contexts |-> [pc |-> "idle", cid |-> NoObject, ret |-> FALSE,
                                   calls |-> 0]]
    /\ log = <<>>

OtherInit == PrefixInit /\ BuilderInit /\ SetInit

\* the registry of the multibase package
Init == registry = Encodings /\ Held0 /\ OtherInit

\* the registry's answer for a first byte 1 is left open
InitAnyRegistry ==
    /\ registry \in {Encodings, Encodings \cup {PrefixOneEncoding}}
    /\ Held0
    /\ OtherInit

\* a new object replaces obj; nothing has been serialized from it yet
Hold(c) ==
    /\ obj' = c
    /\ prev' = obj
    /\ origin' = c
    /\ hops' = 0
    /\ wire' = BFail("")
    /\ wireKind' = "none"
    /\ wireEnc' = ""

\* a scenario constructs one or two objects, then serializes, parses or
\* converts: constructors run while at most one object is held and no
\* serialized bytes are outstanding
Fresh == prev = NoCid /\ wireKind = "none"

NewCIDv0(h) ==
    /\ Fresh
    /\ UNCHANGED <<registry, otherVars>>
    /\ Hold(CIDv0(h))
    /\ call' = Call("CIDv0", 1, 0, CIDv0_CODEC, h)
    /\ res' = COk(CIDv0(h), "none")

NewCIDv1(c, h) ==
    /\ Fresh
    /\ UNCHANGED <<registry, otherVars>>
    /\ Hold(CIDv1(c, h))
    /\ call' = Call("CIDv1", 2, 1, c, h)
    /\ res' = COk(CIDv1(c, h), "none")

\* nothing is held
Drop ==
    /\ obj' = NoCid
    /\ prev' = NoCid
    /\ origin' = NoCid
    /\ hops' = 0
    /\ wire' = BFail("")
    /\ wireKind' = "none"
    /\ wireEnc' = ""

\* make_cid(version, codec, multihash)
MakeCid3(v, c, h) ==
    LET r == make_cid(<<v, c, h>>)
    IN  /\ Fresh
        /\ call' = Call("make_cid", 3, v, c, h)
        /\ res' = r
        /\ IF r.ok THEN Hold(r.cid) ELSE Drop
        /\ UNCHANGED <<registry, otherVars>>

\* make_cid with n arguments, n neither 1 nor 3
MakeCidArity(n) ==
    /\ UNCHANGED <<registry, otherVars>>
    /\ call' = Call("make_cid", n, -1, "", <<>>)
    /\ res' = make_cid([i \in 1..n |-> 0])
    /\ Drop

Encode(e) ==
    /\ UNCHANGED <<registry, otherVars>>
    /\ obj # NoCid
    /\ wire' = encode(obj, e)
    /\ wireKind' = "text"
    /\ wireEnc' = e
    /\ prev' = NoCid
    /\ call' = Call("encode", 1, obj.version, obj.codec, obj.multihash)
    /\ res' = NoRes
    /\ UNCHANGED <<obj, origin, hops>>

Buffer ==
    /\ UNCHANGED <<registry, otherVars>>
    /\ obj # NoCid
    /\ wire' = buffer(obj)
    /\ wireKind' = "buffer"
    /\ wireEnc' = ""
    /\ prev' = NoCid
    /\ call' = Call("buffer", 0, obj.version, obj.codec, obj.multihash)
    /\ res' = NoRes
    /\ UNCHANGED <<obj, origin, hops>>

\* arbitrary bytes arrive where nothing is held
Feed(b) ==
    /\ UNCHANGED <<registry, otherVars>>
    /\ obj = NoCid /\ wireKind = "none"
    /\ wire' = BOk(b)
    /\ wireKind' = "raw"
    /\ wireEnc' = ""
    /\ obj' = NoCid
    /\ prev' = NoCid
    /\ origin' = NoCid
    /\ hops' = 0
    /\ call' = Call("feed", 0, -1, "", b)
    /\ res' = NoRes

\* bytes are appended to the buffer of obj (a concatenation)
Concat(extra) ==
    /\ UNCHANGED <<registry, otherVars>>
    /\ wireKind = "buffer" /\ wire.ok
    /\ wire' = BOk(wire.val \o extra)
    /\ wireKind' = "extended"
    /\ call' = Call("concat", 1, -1, "", extra)
    /\ res' = NoRes
    /\ UNCHANGED <<obj, prev, origin, hops, wireEnc>>

\* the stream over the buffer of obj ends after n bytes
Cut(n) ==
    /\ UNCHANGED <<registry, otherVars>>
    /\ wireKind = "buffer" /\ wire.ok
    /\ n < Len(wire.val)
    /\ wire' = BOk(SubSeq(wire.val, 1, n))
    /\ wireKind' = "cut"
    /\ call' = Call("cut", 1, -1, "", <<>>)
    /\ res' = NoRes
    /\ UNCHANGED <<obj, prev, origin, hops, wireEnc>>

IsAscii(b) == \A i \in 1..Len(b) : b[i] < 128

FromBytes ==
    /\ UNCHANGED <<registry, otherVars>>
    /\ wireKind # "none" /\ wire.ok
    /\ call' = Call("from_bytes", 1, -1, "", wire.val)
    /\ res' = from_bytes(wire.val)
    /\ UNCHANGED <<obj, prev, origin, hops, wire, wireKind, wireEnc>>

FromBytesStrict ==
    /\ UNCHANGED <<registry, otherVars>>
    /\ wireKind # "none" /\ wire.ok
    /\ call' = Call("from_bytes_strict", 1, -1, "", wire.val)
    /\ res' = from_bytes_strict(wire.val)
    /\ UNCHANGED <<obj, prev, origin, hops, wire, wireKind, wireEnc>>

\* from_reader(io.BytesIO(bytes))
FromReader ==
    /\ UNCHANGED <<registry, otherVars>>
    /\ wireKind # "none" /\ wire.ok
    /\ call' = Call("from_reader", 1, -1, "", wire.val)
    /\ res' = from_reader(wire.val)
    /\ UNCHANGED <<obj, prev, origin, hops, wire, wireKind, wireEnc>>

\* from_string of the text as a str, or of the bytes themselves
FromString ==
    /\ UNCHANGED <<registry, otherVars>>
    /\ wireKind # "none" /\ wire.ok
    /\ LET t == IF IsAscii(wire.val) THEN "str" ELSE "bytes"
       IN  /\ call' = Call("from_string", 1, -1, t, wire.val)
           /\ res' = from_string([type |-> t, val |-> wire.val])
    /\ UNCHANGED <<obj, prev, origin, hops, wire, wireKind, wireEnc>>

\* make_cid with one argument, a str, bytes, or a value of another type
MakeCid1(t) ==
    /\ UNCHANGED <<registry, otherVars>>
    /\ wireKind # "none" /\ wire.ok
    /\ t = "str" => IsAscii(wire.val)
    /\ call' = Call("make_cid", 1, -1, t, wire.val)
    /\ res' = make_cid(<<[type |-> t, val |-> wire.val]>>)
    /\ UNCHANGED <<obj, prev, origin, hops, wire, wireKind, wireEnc>>

Convert(r, op) ==
    /\ UNCHANGED <<registry, otherVars>>
    /\ call' = Call(op, 0, obj.version, obj.codec, obj.multihash)
    /\ res' = r
    /\ wire' = BFail("")
    /\ wireKind' = "none"
    /\ wireEnc' = ""
    /\ prev' = NoCid
    /\ UNCHANGED origin
    /\ IF r.ok THEN obj' = r.cid /\ hops' = hops + 1
       ELSE UNCHANGED <<obj, hops>>

ToV1 ==
    /\ obj.cls = "CIDv0"
    /\ hops < MaxHops
    /\ Convert(to_v1(obj), "to_v1")

ToV0 ==
    /\ obj.cls = "CIDv1"
    /\ hops < MaxHops
    /\ Convert(to_v0(obj), "to_v0")

\* nothing is held and nothing has been computed yet
Untouched == obj = NoCid /\ wireKind = "none" /\ res = NoRes

\* the calls that take no state (wrong arity, arbitrary bytes) open a
\* scenario; each guard stands before its quantifier
Next ==
    \/ Fresh /\ \E h \in Multihashes : NewCIDv0(h)
    \/ Fresh /\ \E c \in CodecArgs, h \in Multihashes : NewCIDv1(c, h)
    \/ Fresh /\ \E v \in VersionArgs, c \in CodecArgs, h \in Multihashes :
            MakeCid3(v, c, h)
    \/ Untouched /\ \E n \in {0, 2, 4} : MakeCidArity(n)
    \/ obj # NoCid /\ \E e \in EncodingArgs : Encode(e)
    \/ Buffer
    \/ Untouched /\ \E b \in RawInputs : Feed(b)
    \/ wireKind = "buffer" /\ \E x \in Extras : Concat(x)
    \/ wireKind = "buffer" /\ \E n \in 0..MaxStream : Cut(n)
    \/ FromBytes
    \/ FromBytesStrict
    \/ FromReader
    \/ FromString
    \/ \E t \in {"str", "bytes", "int"} : MakeCid1(t)
    \/ ToV1
    \/ ToV0

Spec == Init /\ [][Next]_vars

SpecAnyRegistry == InitAnyRegistry /\ [][Next]_vars

(***************************************************************************)
(* Text operations: parse_ipfs_path, from_string, is_cid, extract_encoding *)
(***************************************************************************)
\* the hosts ipfs.io and localhost:80
HostIpfsIo == <<105, 112, 102, 115, 46, 105, 111>>
HostLocalhost == <<108, 111, 99, 97, 108, 104, 111, 115, 116, 58, 56, 48>>

\* what precedes the CID text: nothing, /ipfs/, the two URL shapes, a
\* segment followed by another segment, and /ipfs without its last slash
PathHeads ==
    {<<>>, IpfsSegment, HostIpfsIo \o IpfsSegment, HostLocalhost \o IpfsSegment,
     IpfsSegment \o IpfsSegment, SubSeq(IpfsSegment, 1, 5)}

\* the base58 text of the second one starts with 7, a multibase prefix
PathCids == {CIDv0(<<17, 1, 0>>), CIDv0(<<18, 1, 0>>), CIDv1("dag-pb", <<18, 1, 0>>)}

\* the CID text: none, a character outside every alphabet, or the text of
\* a CID
PathCores ==
    {<<>>, <<33>>} \cup {encode(c, e).val : c \in PathCids, e \in {"default", "base16"}}

\* what follows: nothing, a sub-path, a query, a fragment, another segment
PathTails == {<<>>, <<47, 97>>, <<63, 97>>, <<35, 97>>, IpfsSegment \o <<122>>}

PathInputs == {h \o c \o t : h \in PathHeads, c \in PathCores, t \in PathTails}

Pad(n) == [i \in 1..n |-> 49]

\* texts around the two tests of extract_encoding: shorter than 2, Qm of
\* 45, 46 and 47 characters, 46 characters that do not start with Qm, a
\* first character the registry does not know, the identity prefix
EncodingTexts ==
    {<<>>, <<81>>, <<122>>, Qm, <<33, 33>>, <<0, 1>>, <<109, 81>> \o Pad(CIDv0_TEXT_LEN - 2),
     <<122>> \o Pad(CIDv0_TEXT_LEN - 1)}
        \cup {Qm \o Pad(n) : n \in {CIDv0_TEXT_LEN - 3, CIDv0_TEXT_LEN - 2, CIDv0_TEXT_LEN - 1}}

EncodingInputs == EncodingTexts \cup PathCores

\* a text arrives where nothing is held
FeedText(t) ==
    /\ UNCHANGED <<registry, otherVars>>
    /\ Untouched
    /\ wire' = BOk(t)
    /\ wireKind' = "path"
    /\ wireEnc' = ""
    /\ obj' = NoCid
    /\ prev' = NoCid
    /\ origin' = NoCid
    /\ hops' = 0
    /\ call' = Call("feed", 0, -1, "str", t)
    /\ res' = NoRes

\* parse_ipfs_path of the text at hand; the text it returns is at hand next
ParseIpfsPath ==
    /\ UNCHANGED <<registry, otherVars>>
    /\ wireKind = "path" /\ wire.ok
    /\ call' = Call("parse_ipfs_path", 1, -1, "str", wire.val)
    /\ wire' = BOk(parse_ipfs_path(wire.val))
    /\ wireKind' = "parsed"
    /\ res' = NoRes
    /\ UNCHANGED <<obj, prev, origin, hops, wireEnc>>

\* is_cid of the text as a str, or of the bytes themselves
IsCid(t) ==
    /\ UNCHANGED <<registry, otherVars>>
    /\ wireKind # "none" /\ wire.ok
    /\ t = "str" => IsAscii(wire.val)
    /\ call' = Call("is_cid", 1, -1, t, wire.val)
    /\ res' = is_cid([type |-> t, val |-> wire.val])
    /\ UNCHANGED <<obj, prev, origin, hops, wire, wireKind, wireEnc>>

\* extract_encoding(t): the text is looked at, not parsed, and nothing of
\* what is held changes
ExtractEncoding(t) ==
    /\ UNCHANGED <<registry, otherVars>>
    /\ call' = Call("extract_encoding", 1, -1, "str", t)
    /\ res' = extract_encoding(t)
    /\ UNCHANGED <<obj, prev, origin, hops, wire, wireKind, wireEnc>>

NextText ==
    \/ Untouched /\ \E t \in PathInputs : FeedText(t)
    \/ Untouched /\ \E b \in RawInputs : Feed(b)
    \/ ParseIpfsPath
    \/ FromString
    \/ FromBytes
    \/ \E t \in {"str", "bytes", "int"} : MakeCid1(t)
    \/ \E t \in {"str", "bytes"} : IsCid(t)
    \/ Untouched /\ \E t \in EncodingInputs : ExtractEncoding(t)

SpecText == Init /\ [][NextText]_vars

(***************************************************************************)
(* Map keys: two CID objects, made by any of the public ways, and their    *)
(* key_string                                                              *)
(***************************************************************************)
\* bytes that are the buffer of a version 1 CID, given as a multihash
FramedMultihashes == {CIDv1_buffer(CIDv1("dag-pb", <<18, 1, 0>>)).val}

KeyMultihashes == Multihashes \cup FramedMultihashes

\* the Prefix values and the builders whose sum is taken
KeyPrefixes ==
    {r.prefix : r \in {x \in {Prefix_init(v, c, t, -1) :
                                 v \in VersionArgs, c \in CodecArgs,
                                 t \in {"sha2-256", "sha2-512"}} : x.ok}}

KeyBuilders ==
    {V0Builder_init}
        \cup {V1Builder_init(c, t, -1) : c \in CodecArgs, t \in {"sha2-256", "sha2-512"}}

\* a call returned a CID object, which is held as a new object
HoldResult(op, r) ==
    /\ Fresh
    /\ r.ok
    /\ Hold(r.cid)
    /\ call' = Call(op, 1, r.cid.version, r.cid.codec, r.cid.multihash)
    /\ res' = COk(r.cid, "none")
    /\ UNCHANGED <<registry, otherVars>>

HoldParsed(b) == HoldResult("from_bytes", from_bytes(b))

HoldPrefixSum(p, d) == HoldResult("Prefix.sum", Prefix_sum(p, d))

HoldBuilderSum(b, d) == HoldResult("Builder.sum", Builder_sum(b, d))

\* obj.key_string(), while another object is held
KeyString ==
    /\ UNCHANGED <<registry, otherVars>>
    /\ obj # NoCid /\ prev # NoCid /\ wireKind = "none"
    /\ wire' = key_string(obj)
    /\ wireKind' = "key"
    /\ call' = Call("key_string", 0, obj.version, obj.codec, obj.multihash)
    /\ res' = NoRes
    /\ UNCHANGED <<obj, prev, origin, hops, wireEnc>>

NextKeys ==
    \/ Fresh /\ \E h \in KeyMultihashes : NewCIDv0(h)
    \/ Fresh /\ \E c \in CodecArgs, h \in KeyMultihashes : NewCIDv1(c, h)
    \/ Fresh /\ \E v \in VersionArgs, c \in CodecArgs, h \in KeyMultihashes :
            MakeCid3(v, c, h)
    \/ Fresh /\ \E b \in Frames : HoldParsed(b)
    \/ Fresh /\ \E p \in KeyPrefixes, d \in DataArgs : HoldPrefixSum(p, d)
    \/ Fresh /\ \E b \in KeyBuilders, d \in DataArgs : HoldBuilderSum(b, d)
    \/ KeyString

SpecKeys == Init /\ [][NextKeys]_vars

(***************************************************************************)
(* Streams: from_reader called again and again on one reader               *)
(***************************************************************************)
\* version 1 CIDs, the last one with a hash code of three bytes
StreamCids ==
    {CIDv1("dag-pb", <<18, 1, 0>>), CIDv1("raw", <<18, 1, 255>>),
     CIDv1("dag-json", <<17, 2, 0, 255>>)}
        \cup {CIDv1("dag-pb", h) : h \in WideMultihashes}

\* <0><dag-pb><multihash>, which from_reader takes for version 0: the
\* second one has a hash code (17) that is its digest length plus one
V0Streams == {<<0, 112, 17, 1, 0>>, <<0, 112, 17, 16>> \o Pad(16)}

\* what a stream is put together from: buffers of version 1 CIDs, the
\* buffer of a version 0 CID, version 0 streams, other bytes
StreamParts ==
    {buffer(c).val : c \in StreamCids} \cup {buffer(CIDv0(<<18, 1, 0>>)).val}
        \cup V0Streams \cup Extras

RECURSIVE Flat(_)
Flat(parts) == IF parts = <<>> THEN <<>> ELSE Head(parts) \o Flat(Tail(parts))

StreamInputs == {Flat(ps) : ps \in UNION {[1..n -> StreamParts] : n \in 1..MaxParts}}

\* a reader over a stream is opened where nothing is held
OpenStream(b) ==
    /\ UNCHANGED <<registry, otherVars>>
    /\ Untouched
    /\ wire' = BOk(b)
    /\ wireKind' = "stream"
    /\ wireEnc' = ""
    /\ obj' = NoCid
    /\ prev' = NoCid
    /\ origin' = NoCid
    /\ hops' = 0
    /\ call' = Call("open", 0, -1, "", b)
    /\ res' = NoRes

\* from_reader(reader): wire is what the reader has not handed out yet,
\* hops counts the calls made on it
ReadNext ==
    /\ UNCHANGED <<registry, otherVars>>
    /\ wireKind = "stream" /\ wire.ok
    /\ hops < MaxReads
    /\ call' = Call("from_reader", hops + 1, -1, "", wire.val)
    /\ res' = from_reader(wire.val)
    /\ wire' = BOk(SubSeq(wire.val, reader_pos(wire.val) + 1, Len(wire.val)))
    /\ hops' = hops + 1
    /\ UNCHANGED <<obj, prev, origin, wireKind, wireEnc>>

NextStream ==
    \/ Untouched /\ \E b \in StreamInputs : OpenStream(b)
    \/ ReadNext

SpecStream == Init /\ [][NextStream]_vars

(***************************************************************************)
(* Prefix operations                                                       *)
(***************************************************************************)
\* nothing has been built, fed or computed yet
PrefixFresh == pfx = NoPrefix /\ ~pwire.ok /\ pres = NoPRes

\* the outcome of an operation that yields a Prefix: held when it succeeds;
\* a scenario builds a Prefix first, then serializes, parses or sums
HoldPrefix(r) ==
    /\ PrefixFresh
    /\ pres' = r
    /\ pfx' = IF r.ok THEN r.prefix ELSE NoPrefix
    /\ pwire' = BFail("")
    /\ UNCHANGED nonPrefixVars

NewPrefix(v, c, t, l) ==
    /\ pcall' = PCall("Prefix", v, c, t, l, <<>>)
    /\ HoldPrefix(Prefix_init(v, c, t, l))

PrefixV0 ==
    /\ pcall' = PCall("Prefix.v0", 0, "dag-pb", "sha2-256", -1, <<>>)
    /\ HoldPrefix(Prefix_v0)

PrefixV1(c, t, l) ==
    /\ pcall' = PCall("Prefix.v1", 1, c, t, l, <<>>)
    /\ HoldPrefix(Prefix_v1(c, t, l))

\* c.prefix() of a CID object c
CidPrefix(c) ==
    /\ pcall' = PCall("cid.prefix", c.version, c.codec, "", -1, c.multihash)
    /\ HoldPrefix(BaseCID_prefix(c))

PrefixToBytes ==
    /\ pfx # NoPrefix
    /\ pcall' = PCall("to_bytes", pfx.version, pfx.codec, pfx.mh_type, pfx.mh_length, <<>>)
    /\ pwire' = Prefix_to_bytes(pfx)
    /\ pres' = NoPRes
    /\ UNCHANGED <<pfx, nonPrefixVars>>

\* arbitrary bytes arrive where no Prefix and no bytes are held
PrefixFeed(b) ==
    /\ PrefixFresh
    /\ pcall' = PCall("feed", -1, "", "", -1, b)
    /\ pwire' = BOk(b)
    /\ pres' = NoPRes
    /\ UNCHANGED <<pfx, nonPrefixVars>>

\* Prefix.from_bytes of the bytes at hand; pfx stays as the Prefix they
\* were written from
PrefixFromBytes ==
    /\ pwire.ok
    /\ pcall' = PCall("Prefix.from_bytes", -1, "", "", -1, pwire.val)
    /\ pres' = Prefix_from_bytes(pwire.val)
    /\ UNCHANGED <<pfx, pwire, nonPrefixVars>>

PrefixSum(d) ==
    /\ pfx # NoPrefix
    /\ pcall' = PCall("sum", pfx.version, pfx.codec, pfx.mh_type, pfx.mh_length, d)
    /\ pres' = Prefix_sum(pfx, d)
    /\ pwire' = BFail("")
    /\ UNCHANGED <<pfx, nonPrefixVars>>

NextPrefix ==
    \/ PrefixFresh /\ \E v \in VersionArgs, c \in CodecArgs, t \in MhTypeArgs,
                           l \in MhLengthArgs : NewPrefix(v, c, t, l)
    \/ PrefixV0
    \/ PrefixFresh /\ \E c \in CodecArgs, t \in MhTypeArgs, l \in MhLengthArgs :
            PrefixV1(c, t, l)
    \/ PrefixFresh /\ \E c \in CidArgs : CidPrefix(c)
    \/ PrefixToBytes
    \/ PrefixFresh /\ \E b \in PrefixInputs : PrefixFeed(b)
    \/ PrefixFromBytes
    \/ \E d \in DataArgs : PrefixSum(d)

SpecPrefix == Init /\ [][NextPrefix]_vars

(***************************************************************************)
(* The varint decoder of prefix.py on its own                              *)
(***************************************************************************)
\* nine and ten bytes with the high bit set, alone and before a last byte
LongVarints ==
    {[i \in 1..n |-> 128] \o t : n \in {9, 10}, t \in {<<>>, <<0>>}}

\* the short inputs have values within the integers of the checker
VarintInputs == {b \in PrefixInputs : Len(b) <= MaxVarintLen} \cup LongVarints

\* _decode_varint(data, offset) of the bytes at hand; the call record has
\* the offset in its first number
DecodeVarint(offset) ==
    /\ pwire.ok
    /\ offset <= Len(pwire.val)
    /\ pcall' = PCall("_decode_varint", offset, "", "", -1, pwire.val)
    /\ pres' = _decode_varint(pwire.val, offset)
    /\ UNCHANGED <<pfx, pwire, nonPrefixVars>>

NextVarint ==
    \/ PrefixFresh /\ \E b \in VarintInputs : PrefixFeed(b)
    \/ pwire.ok /\ \E o \in 0..(MaxPrefixLen + 1) : DecodeVarint(o)

SpecVarint == Init /\ [][NextVarint]_vars

(***************************************************************************)
(* Builder operations                                                      *)
(***************************************************************************)
\* a scenario constructs one builder and derives the others from it
NewV0Builder ==
    /\ builders = <<>>
    /\ bcall' = BCall("V0Builder", 0, "", <<>>)
    /\ builders' = Append(builders, V0Builder_init)
    /\ bres' = [ref |-> Len(builders) + 1, val |-> PFail("")]
    /\ UNCHANGED nonBuilderVars

NewV1Builder(c, t, l) ==
    /\ builders = <<>>
    /\ bcall' = BCall("V1Builder", 0, c, <<>>)
    /\ builders' = Append(builders, V1Builder_init(c, t, l))
    /\ bres' = [ref |-> Len(builders) + 1, val |-> PFail("")]
    /\ UNCHANGED nonBuilderVars

\* builders[i].with_codec(c): the receiver, or a new object
WithCodec(i, c) ==
    LET r == Builder_with_codec(builders[i], c)
    IN  /\ r.same \/ Len(builders) < MaxBuilders
        /\ bcall' = BCall("with_codec", i, c, <<>>)
        /\ builders' = IF r.same THEN builders ELSE Append(builders, r.builder)
        /\ bres' = [ref |-> IF r.same THEN i ELSE Len(builders) + 1,
                    val |-> PFail("")]
        /\ UNCHANGED nonBuilderVars

GetCodec(i) ==
    /\ bcall' = BCall("get_codec", i, "", <<>>)
    /\ bres' = [ref |-> 0, val |-> Builder_get_codec(builders[i])]
    /\ UNCHANGED <<builders, nonBuilderVars>>

BuilderSum(i, d) ==
    /\ bcall' = BCall("sum", i, "", d)
    /\ bres' = [ref |-> 0, val |-> Builder_sum(builders[i], d)]
    /\ UNCHANGED <<builders, nonBuilderVars>>

\* the last builder goes out of scope
DropBuilder ==
    /\ builders # <<>>
    /\ bcall' = BCall("del", Len(builders), "", <<>>)
    /\ builders' = SubSeq(builders, 1, Len(builders) - 1)
    /\ bres' = NoBRes
    /\ UNCHANGED nonBuilderVars

NextBuilder ==
    \/ NewV0Builder
    \/ builders = <<>> /\ \E c \in CodecArgs, t \in BuilderTypeArgs,
                              l \in BuilderLengthArgs : NewV1Builder(c, t, l)
    \/ \E i \in 1..Len(builders), c \in CodecArgs : WithCodec(i, c)
    \/ \E i \in 1..Len(builders) : GetCodec(i)
    \/ \E i \in 1..Len(builders), d \in DataArgs : BuilderSum(i, d)
    \/ DropBuilder

SpecBuilder == Init /\ [][NextBuilder]_vars

(***************************************************************************)
(* A chain of with_codec calls from a V0Builder: b = V0Builder(), then     *)
(* b = b.with_codec(c) again and again. builders holds the builder that    *)
(* each step returned, the last one being the current builder; the call    *)
(* record has the codecs requested so far.                                 *)
(***************************************************************************)
ChainOps == {"chain.V0Builder", "chain.with_codec", "chain.sum"}

Requested == IF bcall.op \in ChainOps THEN bcall.asked ELSE <<>>

ChainCall(op, codec, data, asked) ==
    [op |-> op, self |-> Len(builders), codec |-> codec, data |-> data,
     before |-> builders, asked |-> asked]

StartChain ==
    /\ builders = <<>>
    /\ bcall' = ChainCall("chain.V0Builder", "", <<>>, <<>>)
    /\ builders' = <<V0Builder_init>>
    /\ bres' = [ref |-> 1, val |-> PFail("")]
    /\ UNCHANGED nonBuilderVars

SwitchCodec(c) ==
    /\ builders # <<>>
    /\ Len(Requested) < MaxSwitches
    /\ bcall' = ChainCall("chain.with_codec", c, <<>>, Append(Requested, c))
    /\ builders' = Append(builders,
                          Builder_with_codec(builders[Len(builders)], c).builder)
    /\ bres' = [ref |-> Len(builders) + 1, val |-> PFail("")]
    /\ UNCHANGED nonBuilderVars

ChainSum(d) ==
    /\ builders # <<>>
    /\ bcall' = ChainCall("chain.sum", "", d, Requested)
    /\ bres' = [ref |-> 0, val |-> Builder_sum(builders[Len(builders)], d)]
    /\ UNCHANGED <<builders, nonBuilderVars>>

NextChain ==
    \/ StartChain
    \/ builders # <<>> /\ \E c \in CodecArgs : SwitchCodec(c)
    \/ builders # <<>> /\ \E d \in DataArgs : ChainSum(d)

SpecChain == Init /\ [][NextChain]_vars

(***************************************************************************)
(* CIDSet operations, one call after another                               *)
(***************************************************************************)
NewSet ==
    /\ cset' = CIDSet_init
    /\ shist' = FreshHist
    /\ scall' = SCall("CIDSet", NoObject)
    /\ sres' = NoSRes
    /\ UNCHANGED <<ctx, log, nonSetVars>>

SetAdd(c) ==
    /\ cset' = CIDSet_add(cset, c)
    /\ shist' = [shist EXCEPT !.live = @ \cup {BaseCID_hash(c.cid)},
                              !.onlyVisits = FALSE]
    /\ scall' = SCall("add", c)
    /\ sres' = NoSRes
    /\ UNCHANGED <<ctx, log, nonSetVars>>

SetRemove(c) ==
    /\ cset' = CIDSet_remove(cset, c)
    /\ shist' = [shist EXCEPT !.live = @ \ {BaseCID_hash(c.cid)},
                              !.onlyVisits = FALSE]
    /\ scall' = SCall("remove", c)
    /\ sres' = NoSRes
    /\ UNCHANGED <<ctx, log, nonSetVars>>

SetVisit(c) ==
    LET r == CIDSet_visit(cset, c)
        k == BaseCID_hash(c.cid)
    IN  /\ cset' = r.set
        /\ shist' = [shist EXCEPT !.live = @ \cup {k},
                                  !.trues[k] = IF r.ret /\ @ < 2 THEN @ + 1 ELSE @]
        /\ scall' = SCall("visit", c)
        /\ sres' = SRes(r.ret, -1, <<>>)
        /\ UNCHANGED <<ctx, log, nonSetVars>>

\* has(c) and c in cid_set
SetHas(op, c) ==
    /\ scall' = SCall(op, c)
    /\ sres' = SRes(IF op = "has" THEN CIDSet_has(cset, c) ELSE CIDSet_contains(cset, c),
                    -1, <<>>)
    /\ UNCHANGED <<cset, shist, ctx, log, nonSetVars>>

SetLen ==
    /\ scall' = SCall("len", NoObject)
    /\ sres' = SRes(FALSE, CIDSet_len(cset), <<>>)
    /\ UNCHANGED <<cset, shist, ctx, log, nonSetVars>>

\* keys(), iteration and for_each: the elements in the order the set
\* yields them
SetEnumerate(op) ==
    /\ scall' = SCall(op, NoObject)
    /\ \E l \in (IF op = "keys" THEN CIDSet_keys(cset)
                  ELSE IF op = "iter" THEN CIDSet_iter(cset)
                  ELSE CIDSet_for_each(cset)) :
            sres' = SRes(FALSE, -1, l)
    /\ UNCHANGED <<cset, shist, ctx, log, nonSetVars>>

NextSet ==
    \/ NewSet
    \/ \E c \in SetObjects : SetAdd(c)
    \/ \E c \in SetObjects : SetRemove(c)
    \/ \E c \in SetObjects : SetVisit(c)
    \/ \E op \in {"has", "contains"}, c \in SetObjects : SetHas(op, c)
    \/ SetLen
    \/ \E op \in {"keys", "iter", "for_each"} : SetEnumerate(op)

SpecSet == Init /\ [][NextSet]_vars

(***************************************************************************)
(* CIDSet.visit called from two execution contexts on one set, with no     *)
(* lock: a context may be suspended between the membership test and the    *)
(* insertion                                                               *)
(***************************************************************************)
Step(t, ev, c) ==
    [ctx |-> t, call |-> ctx[t].calls + (IF ev = "check" THEN 1 ELSE 0), ev |-> ev,
     key |-> BaseCID_hash(c.cid)]

\* visit(c) is called in context t and gets to its membership test
VisitCheck(t, c) ==
    /\ ctx[t].pc = "idle"
    /\ ctx[t].calls < MaxCalls
    /\ log' = Append(log, Step(t, "check", c))
    /\ ctx' = [ctx EXCEPT ![t] =
                 IF visit_check(cset, c)
                 THEN [pc |-> "insert", cid |-> c, ret |-> FALSE, calls |-> @.calls + 1]
                 ELSE [pc |-> "idle", cid |-> c, ret |-> FALSE, calls |-> @.calls + 1]]
    /\ UNCHANGED <<cset, shist, scall, sres, nonSetVars>>

\* context t inserts and returns true
VisitInsert(t) ==
    /\ ctx[t].pc = "insert"
    /\ cset' = visit_insert(cset, ctx[t].cid)
    /\ log' = Append(log, Step(t, "insert", ctx[t].cid))
    /\ ctx' = [ctx EXCEPT ![t].pc = "idle", ![t].ret = TRUE]
    /\ UNCHANGED <<shist, scall, sres, nonSetVars>>

NextSetConcurrent ==
    \/ \E t \in Contexts, c \in SetObjects : VisitCheck(t, c)
    \/ \E t \in Contexts : VisitInsert(t)

SpecSetConcurrent == Init /\ [][NextSetConcurrent]_vars

(***************************************************************************)
(* Vocabulary of the properties                                            *)
(***************************************************************************)
Triple(c) == <<c.version, c.codec, c.multihash>>

\* a triple the validating constructor accepts, with a multihash the
\* structural validator accepts
ValidTriple(c) ==
    /\ c.version \in {0, 1}
    /\ c.codec \in CodecNames
    /\ c.version = 0 => c.codec = "dag-pb"
    /\ mh_decode(c.multihash)

\* the last call parsed text as a str (from_string, or make_cid of a str)
ParsedText ==
    \/ call.op = "from_string" /\ call.codec = "str"
    \/ call.op = "make_cid" /\ call.n = 1 /\ call.codec = "str"

\* the last call handed bytes to from_bytes unchanged
ParsedBytes ==
    \/ call.op = "from_bytes"
    \/ call.op = "from_string" /\ call.codec = "bytes"
    \/ call.op = "make_cid" /\ call.n = 1 /\ call.codec = "bytes"

Parsed == ParsedText \/ ParsedBytes

\* two objects are one key of a set or a dict
SameKey(a, b) == BaseCID_hash(a) = BaseCID_hash(b) /\ BaseCID_eq(a, b)

(***************************************************************************)
(* C1 - Text round trip: parsing c.encode() of a CID with a valid triple   *)
(* (for version 1: any encoding whose prefix code is not the zero byte)    *)
(* with from_string or make_cid gives a CID equal to c.                    *)
(***************************************************************************)
C1_TextRoundTrip ==
    ( /\ wireKind = "text" /\ wire.ok
      /\ ValidTriple(obj)
      /\ obj.version = 1 => wireEnc # "identity"
      /\ ParsedText )
    => res.ok /\ BaseCID_eq(res.cid, obj)

(***************************************************************************)
(* C2 - Binary round trip: from_bytes(c.buffer) gives a CID equal to c,    *)
(* for version 0 as well as version 1.                                     *)
(***************************************************************************)
C2_BinaryRoundTrip ==
    (wireKind = "buffer" /\ wire.ok /\ ValidTriple(obj) /\ ParsedBytes)
    => res.ok /\ BaseCID_eq(res.cid, obj)

SplitAs(r, version, data) ==
    r.ok => /\ r.cid.version = version
            /\ r.cid.codec = multicodec_get_codec(data).name
            /\ r.cid.multihash = multicodec_remove_prefix(data).val

DecisionTable(b, r) ==
    IF Len(b) < 2 THEN ~r.ok /\ r.err = "TooShort" /\ r.branch = "none"
    ELSE IF b[1] # 0 /\ multibase_is_encoded(b)
    THEN /\ r.branch = "multibase"
         /\ LET d == multibase_decode(b)
            IN  /\ ~d.ok => ~r.ok
                /\ d.ok /\ Len(d.val) < 2 => ~r.ok /\ r.err = "InvalidCIDLength"
                /\ d.ok /\ Len(d.val) >= 2 => SplitAs(r, d.val[1], Tail(d.val))
    ELSE IF b[1] \in {0, 1}
    THEN r.branch = "raw" /\ SplitAs(r, b[1], Tail(b))
    ELSE /\ r.branch = "base58"
         /\ ~b58decode(b).ok => ~r.ok /\ r.err = "InvalidBase58Multihash"
         /\ r.ok => Triple(r.cid) = <<0, "dag-pb", b58decode(b).val>>

C4_DecisionTable == ParsedBytes => DecisionTable(call.bytes, res)

\* a multibase text whose payload decodes to a single byte
C4_Witness ==
    /\ ParsedBytes /\ res.branch = "multibase"
    /\ ~res.ok /\ res.err = "InvalidCIDLength"

(***************************************************************************)
(* C5 - as claimed: a public constructor (CIDv0(h), CIDv1(codec, h),       *)
(* make_cid(version, codec, h)) given bytes h that the multihash           *)
(* validator rejects fails instead of returning a CID.                     *)
(***************************************************************************)
Constructed ==
    \/ call.op \in {"CIDv0", "CIDv1"}
    \/ call.op = "make_cid" /\ call.n = 3

C5_ConstructorValidates ==
    (Constructed /\ ~mh_decode(call.bytes)) => ~res.ok

(***************************************************************************)
(* C5 - as amended: the constructors do not look into the multihash.       *)
(* Given bytes h that the validator rejects, CIDv0(h) and CIDv1(codec, h)  *)
(* return a CID whose multihash is h, and make_cid(version, codec, h)      *)
(* returns one exactly when version and codec pass its checks.             *)
(***************************************************************************)
C5_ConstructorsStoreAnyBytes ==
    (Constructed /\ ~mh_decode(call.bytes)) =>
        /\ res.ok => res.cid.multihash = call.bytes
        /\ IF call.op = "make_cid"
           THEN res.ok <=> /\ call.version \in {0, 1}
                           /\ call.codec \in CodecNames
                           /\ call.version = 0 => call.codec = "dag-pb"
           ELSE res.ok

C5_Witness ==
    /\ call.op = "make_cid" /\ call.n = 3
    /\ ~mh_decode(call.bytes)
    /\ res.ok /\ res.cid.multihash = call.bytes

(***************************************************************************)
(* C6 - every CID the parser returns has version 0 or 1, a registered      *)
(* codec, codec dag-pb when version is 0, and a multihash the validator    *)
(* accepts; when the validator rejects the recovered multihash the call    *)
(* fails with InvalidMultihashStructure.                                   *)
(***************************************************************************)
ParserInput == IF ParsedText THEN parse_ipfs_path(call.bytes) ELSE call.bytes

\* the multihash bytes a branch recovers from the input, when it gets there
Recovered(b) ==
    IF Len(b) < 2 THEN BFail("")
    ELSE IF b[1] # 0 /\ multibase_is_encoded(b)
    THEN LET d == multibase_decode(b)
         IN  IF d.ok /\ Len(d.val) >= 2 /\ multicodec_get_codec(Tail(d.val)).ok
             THEN multicodec_remove_prefix(Tail(d.val)) ELSE BFail("")
    ELSE IF b[1] \in {0, 1}
    THEN IF multicodec_get_codec(Tail(b)).ok
         THEN multicodec_remove_prefix(Tail(b)) ELSE BFail("")
    ELSE b58decode(b)

C6_ParserReturnsValid ==
    Parsed =>
        /\ res.ok => ValidTriple(res.cid)
        /\ LET m == Recovered(ParserInput)
           IN  (m.ok /\ ~mh_decode(m.val))
                   => ~res.ok /\ res.err = "InvalidMultihashStructure"

C6_Witness ==
    /\ Parsed /\ Recovered(ParserInput).ok
    /\ ~res.ok /\ res.err = "InvalidMultihashStructure"

C8_VersionConversion ==
    /\ call.op = "to_v1" =>
          res.ok /\ Triple(res.cid) = <<1, "dag-pb", call.bytes>>
    /\ (origin.cls = "CIDv0" /\ hops = 2) =>
          BaseCID_eq(obj, origin) /\ obj.cls = "CIDv0"
    /\ (call.op = "to_v0" /\ call.codec # "dag-pb") =>
          ~res.ok /\ res.err = "CodecVersionMismatch"
    /\ (call.op = "to_v0" /\ call.codec = "dag-pb") =>
          res.ok /\ Triple(res.cid) = <<0, "dag-pb", call.bytes>>

C8_Witness ==
    /\ origin.cls = "CIDv0" /\ hops = 2
    /\ call.op = "to_v0" /\ res.ok /\ obj = res.cid

(***************************************************************************)
(* C9 - two CIDs are equal exactly when their (version, codec, multihash)  *)
(* triples are equal, and equal CIDs have equal hash values: CIDv0(h) and  *)
(* CIDv0(h).to_v1() are two keys, two CIDs constructed separately with the *)
(* same triple are one key.                                                *)
(***************************************************************************)
C9_EqualityByTriple ==
    /\ (obj # NoCid /\ prev # NoCid) =>
          /\ BaseCID_eq(obj, prev) <=> Triple(obj) = Triple(prev)
          /\ BaseCID_eq(obj, prev) => BaseCID_hash(obj) = BaseCID_hash(prev)
          /\ SameKey(obj, prev) <=> Triple(obj) = Triple(prev)
    /\ (origin.cls = "CIDv0" /\ hops = 1) =>
          ~BaseCID_eq(obj, origin) /\ ~SameKey(obj, origin)

\* the same triple constructed twice, by different constructors
C9_Witness ==
    /\ obj # NoCid /\ prev # NoCid
    /\ call.op = "make_cid" /\ call.n = 3
    /\ SameKey(obj, prev)

(***************************************************************************)
(* C10 - buffer layout: the buffer of a version 0 CID is its multihash;    *)
(* the buffer of a version 1 CID is the byte 1, the registry's varint      *)
(* prefix of its codec, then its multihash.                                *)
(***************************************************************************)
C10_BufferLayout ==
    (wireKind = "buffer" /\ wire.ok) =>
        /\ obj.version = 0 => wire.val = obj.multihash
        /\ obj.version = 1 =>
              wire.val = <<1>> \o multicodec_get_prefix(obj.codec).val \o obj.multihash

\* a version 1 buffer with a two-byte codec prefix
C10_Witness ==
    /\ wireKind = "buffer" /\ wire.ok
    /\ obj.cls = "CIDv1" /\ obj.codec = "dag-json" /\ Len(obj.multihash) > 0

(***************************************************************************)
(* C11 - as claimed: from_bytes_strict of the buffer of a version 1 CID    *)
(* followed by a non-empty byte string fails with TrailingBytes, with no   *)
(* other error and with no CID.                                            *)
(***************************************************************************)
C11_TrailingBytes ==
    (call.op = "from_bytes_strict" /\ wireKind = "extended" /\ obj.version = 1)
        => ~res.ok /\ res.err = "TrailingBytes"

(***************************************************************************)
(* C12 - Stream round trip for version 1: from_reader on a stream holding  *)
(* the buffer of a version 1 CID, whose multihash header has the hash code *)
(* and the digest length in one byte each, returns the length of the       *)
(* buffer and a CID equal to it.                                           *)
(***************************************************************************)
OneByteHeader(h) == Len(h) >= 2 /\ h[1] < 128 /\ h[2] < 128

C12_StreamRoundTrip ==
    (call.op = "from_reader" /\ wireKind = "buffer" /\ obj.version = 1
        /\ ValidTriple(obj) /\ OneByteHeader(obj.multihash))
    => /\ res.ok
       /\ res.bytes_read = Len(wire.val)
       /\ BaseCID_eq(res.cid, obj)

C12_Witness ==
    /\ call.op = "from_reader" /\ wireKind = "buffer" /\ obj.version = 1
    /\ ValidTriple(obj) /\ obj.codec = "dag-json"
    /\ res.ok /\ res.bytes_read = Len(wire.val) /\ res.cid = obj

(***************************************************************************)
(* C13 - as claimed: from_reader fails with UnexpectedEof and returns no   *)
(* CID whenever the stream ends before a read step is satisfied: the       *)
(* version byte; for version 0 the 2-byte multihash header and the digest  *)
(* of the declared length; for version 1 the codec varint, the 2-byte      *)
(* multihash header and the digest of the declared length.                 *)
(***************************************************************************)
ShortV0(s) == Len(s) >= 1 /\ s[1] = 0 /\ (Len(s) < 3 \/ Len(s) < 3 + s[3])

ShortV1(s) ==
    /\ Len(s) >= 1 /\ s[1] = 1
    /\ LET e == codec_end(s)
       IN  e = 0 \/ Len(s) < e + 2 \/ Len(s) < e + 2 + s[e + 2]

ShortRead(s) == s = <<>> \/ ShortV0(s) \/ ShortV1(s)

C13_ShortReadIsEof ==
    (call.op = "from_reader" /\ ShortRead(call.bytes))
        => ~res.ok /\ res.err = "UnexpectedEof"

(***************************************************************************)
(* C14 - as claimed: for every Prefix p the constructor accepts,           *)
(* Prefix.from_bytes(p.to_bytes()) succeeds and equals p, the default      *)
(* length -1 being written as 0 and read back as -1.                       *)
(***************************************************************************)
RoundTrips ==
    /\ pcall.op = "to_bytes" =>
            /\ pwire.ok
            /\ pfx.mh_length = -1 => pwire.val[Len(pwire.val)] = 0
    /\ pcall.op = "Prefix.from_bytes" => pres.ok /\ Prefix_eq(pres.prefix, pfx)

C14_PrefixRoundTrip == pfx # NoPrefix => RoundTrips

(***************************************************************************)
(* C14 - as amended: the round trip holds for every Prefix the constructor *)
(* accepts whose hash type is in the table of Prefix and whose length is   *)
(* the default -1 or positive; to_bytes fails for a hash type outside the  *)
(* table, and a length 0 is read back as -1.                               *)
(***************************************************************************)
C14_PrefixRoundTripInTable ==
    pfx # NoPrefix =>
        /\ (pfx.mh_type \in DOMAIN mh_codes /\ pfx.mh_length # 0) => RoundTrips
        /\ (pfx.mh_type \notin DOMAIN mh_codes /\ pcall.op = "to_bytes") => ~pwire.ok
        /\ (pfx.mh_type \in DOMAIN mh_codes /\ pfx.mh_length = 0
                /\ pcall.op = "Prefix.from_bytes")
            => pres.ok /\ pres.prefix = [pfx EXCEPT !.mh_length = -1]

C14_Witness ==
    /\ pfx # NoPrefix /\ pcall.op = "Prefix.from_bytes"
    /\ pfx.mh_type = "blake2b-256" /\ pfx.codec = "dag-json" /\ pfx.mh_length = -1
    /\ pres.ok /\ pres.prefix = pfx

(***************************************************************************)
(* C15 - every Prefix obtained from the constructor, Prefix.v0, Prefix.v1, *)
(* Prefix.from_bytes or cid.prefix has version 0 or 1, a registered codec, *)
(* and codec dag-pb when version is 0; an attempt to build one that        *)
(* violates this fails and yields no Prefix.                               *)
(***************************************************************************)
ValidPrefix(version, codec) ==
    /\ version \in {0, 1}
    /\ codec \in CodecNames
    /\ version = 0 => codec = "dag-pb"

YieldsPrefix ==
    pcall.op \in {"Prefix", "Prefix.v0", "Prefix.v1", "Prefix.from_bytes", "cid.prefix"}

\* the version and the codec that serialized bytes ask for, when they hold
\* a version byte and the code of a registered codec
Asked(data) ==
    LET codec == multicodec_get_codec(Tail(data))
    IN  IF data # <<>> /\ codec.ok
        THEN [ok |-> TRUE, version |-> data[1], codec |-> codec.name]
        ELSE [ok |-> FALSE, version |-> -1, codec |-> ""]

C15_PrefixInvariant ==
    /\ pfx # NoPrefix => ValidPrefix(pfx.version, pfx.codec)
    /\ (YieldsPrefix /\ pres.ok) => ValidPrefix(pres.prefix.version, pres.prefix.codec)
    /\ (pcall.op \in {"Prefix", "Prefix.v1", "cid.prefix"}
            /\ ~ValidPrefix(pcall.version, pcall.codec))
        => ~pres.ok /\ pres.prefix = NoPrefix /\ pfx = NoPrefix
    /\ (pcall.op = "Prefix.from_bytes" /\ Asked(pcall.data).ok
            /\ ~ValidPrefix(Asked(pcall.data).version, Asked(pcall.data).codec))
        => ~pres.ok /\ pres.prefix = NoPrefix

\* bytes that ask for version 0 with the codec raw are refused
C15_Witness ==
    /\ pcall.op = "Prefix.from_bytes" /\ Asked(pcall.data).ok
    /\ Asked(pcall.data).version = 0 /\ Asked(pcall.data).codec = "raw"
    /\ Len(pcall.data) = 4 /\ pcall.data[3] = 18
    /\ ~pres.ok /\ pres.err = "CodecVersionMismatch"

(***************************************************************************)
(* C16 - p.sum(d): when p.mh_type is sha2-256 or sha2-512 the result is a  *)
(* CID of version p.version and codec p.codec (a CIDv0 for version 0, a    *)
(* CIDv1 for version 1) whose multihash is the multihash encoding of that  *)
(* algorithm's digest of d, with p.mh_length when it is not the sentinel;  *)
(* for any other mh_type it fails with UnsupportedHashAlgorithm and        *)
(* returns no CID.                                                         *)
(***************************************************************************)
DigestOf(mh_type, d) == IF mh_type = "sha2-256" THEN sha256(d) ELSE sha512(d)

C16_PrefixSum ==
    pcall.op = "sum" =>
        IF pfx.mh_type \in {"sha2-256", "sha2-512"}
        THEN /\ pres.ok
             /\ pres.cid.version = pfx.version
             /\ pres.cid.codec = pfx.codec
             /\ pres.cid.cls = (IF pfx.version = 0 THEN "CIDv0" ELSE "CIDv1")
             /\ pres.cid.multihash =
                    mh_encode(DigestOf(pfx.mh_type, pcall.data), pfx.mh_type,
                              IF pfx.mh_length = -1 THEN <<>>
                              ELSE <<pfx.mh_length>>).val
        ELSE ~pres.ok /\ pres.err = "UnsupportedHashAlgorithm" /\ pres.cid = NoCid

\* a sha2-512 sum with the default length: the digest's own length is declared
C16_Witness ==
    /\ pcall.op = "sum" /\ pfx.mh_type = "sha2-512" /\ pfx.mh_length = -1
    /\ pfx.version = 1 /\ pcall.data # <<>>
    /\ pres.ok /\ pres.cid.cls = "CIDv1" /\ mh_decode(pres.cid.multihash)
    /\ Len(pres.cid.multihash) = 2 + Len(sha512(pcall.data))

(***************************************************************************)
(* C17 - Builder codec switching: b.with_codec(c).get_codec() is c;        *)
(* V0Builder.with_codec(dag-pb) returns the same builder, with any other   *)
(* codec a V1Builder with sha2-256 and the default length; V1Builder       *)
(* .with_codec(its own codec) returns the same builder, with another codec *)
(* a new V1Builder with the same mh_type and mh_length; the receiver's     *)
(* codec and hash configuration are unchanged by the call.                 *)
(***************************************************************************)
C17_WithCodec ==
    bcall.op = "with_codec" =>
        LET old == bcall.before
            b == old[bcall.self]
            c == bcall.codec
            r == builders[bres.ref]
            fresh == bres.ref = Len(old) + 1 /\ Len(builders) = Len(old) + 1
            own == IF b.cls = "V0Builder" THEN "dag-pb" ELSE b.codec
        IN  /\ Builder_get_codec(r) = c
            /\ c = own => bres.ref = bcall.self /\ builders = old
            /\ (b.cls = "V0Builder" /\ c # own)
                   => fresh /\ r = V1Builder_init(c, "sha2-256", -1)
            /\ (b.cls = "V1Builder" /\ c # own)
                   => fresh /\ r = V1Builder_init(c, b.mh_type, b.mh_length)
            /\ \A i \in 1..Len(old) : builders[i] = old[i]

\* a V1Builder with a hash type and a length of its own switches codec
C17_Witness ==
    /\ bcall.op = "with_codec"
    /\ bcall.before[bcall.self] = V1Builder_init("dag-pb", "sha2-512", 2)
    /\ bcall.codec = "dag-json"
    /\ bres.ref # bcall.self
    /\ builders[bres.ref] = V1Builder_init("dag-json", "sha2-512", 2)

(***************************************************************************)
(* C18 - with calls made one after another, visit(c) returns true and      *)
(* grows the set by exactly c when c was absent, and returns false and     *)
(* leaves the set unchanged when c was present; on a fresh set that gets   *)
(* visit calls only, visit returns true exactly once per distinct c.       *)
(***************************************************************************)
Present(s, c) == \E x \in s : SameKey(x.cid, c.cid)

C18_VisitOnce ==
    /\ scall.op = "visit" =>
           IF Present(scall.before, scall.cid)
           THEN sres.ret = FALSE /\ cset = scall.before
           ELSE sres.ret = TRUE /\ cset = scall.before \cup {scall.cid}
    /\ shist.onlyVisits =>
           \A k \in SetKeys :
               /\ shist.trues[k] <= 1
               /\ shist.trues[k] = 1 <=> \E x \in cset : BaseCID_hash(x.cid) = k

\* an object equal to one visited before is visited: false, same size
C18_Witness ==
    /\ scall.op = "visit" /\ shist.onlyVisits
    /\ scall.cid.oid = 2 /\ sres.ret = FALSE
    /\ \E x \in cset : x.oid = 1
    /\ Cardinality(cset) = 2 /\ cset = scall.before

(***************************************************************************)
(* C19 - after any sequence of add, remove and visit calls, has(c) and the *)
(* membership test are true exactly for the CIDs (compared by triple)      *)
(* whose last add or visit was not followed by a remove, len is the number *)
(* of such distinct CIDs, and keys, iteration and for_each enumerate       *)
(* exactly those CIDs once each; add of a present CID and remove of an     *)
(* absent CID leave the set unchanged.                                     *)
(***************************************************************************)
Enumerates(list, keys) ==
    /\ Len(list) = Cardinality(keys)
    /\ {Triple(list[i].cid) : i \in 1..Len(list)} = keys

C19_SetContents ==
    /\ \A c \in SetObjects :
           /\ CIDSet_has(cset, c) <=> Triple(c.cid) \in shist.live
           /\ CIDSet_contains(cset, c) <=> Triple(c.cid) \in shist.live
    /\ CIDSet_len(cset) = Cardinality(shist.live)
    /\ scall.op \in {"has", "contains"}
           => sres.ret = (Triple(scall.cid.cid) \in shist.live)
    /\ scall.op = "len" => sres.n = Cardinality(shist.live)
    /\ scall.op \in {"keys", "iter", "for_each"} => Enumerates(sres.list, shist.live)
    /\ (scall.op = "add" /\ Present(scall.before, scall.cid)) => cset = scall.before
    /\ (scall.op = "remove" /\ ~Present(scall.before, scall.cid)) => cset = scall.before

\* an object equal to a present one was added, the one with the other
\* version is present too, and the enumeration gives the two
C19_Witness ==
    /\ scall.op = "keys" /\ Len(sres.list) = 2
    /\ \E x \in cset : x.oid = 3
    /\ \E x \in cset : x.oid \in {1, 2}
    /\ ~shist.onlyVisits
    /\ Cardinality(shist.live) = 2

(***************************************************************************)
(* C20 - CIDSet has no lock: when two execution contexts call visit(c) for *)
(* the same absent c, the membership test and the insertion being separate *)
(* steps, both calls can return true; two calls return true for one key    *)
(* only when they are made in different contexts and the later one made    *)
(* its membership test before the earlier one inserted, so that calls      *)
(* made one after another never do.                                        *)
(***************************************************************************)
C20_BothTrueOnlyInterleaved ==
    \A i, j \in 1..Len(log) :
        (i < j /\ log[i].ev = "insert" /\ log[j].ev = "insert"
            /\ log[i].key = log[j].key)
        => /\ log[i].ctx # log[j].ctx
           /\ \E k \in 1..(i - 1) :
                  /\ log[k].ev = "check"
                  /\ log[k].ctx = log[j].ctx
                  /\ log[k].call = log[j].call
                  /\ log[k].key = log[j].key

\* both contexts made one call for the same key, tested before either
\* inserted, and both returned true; the set holds the key once
C20_Witness ==
    /\ \A t \in Contexts : ctx[t].pc = "idle" /\ ctx[t].calls = 1 /\ ctx[t].ret
    /\ BaseCID_hash(ctx[1].cid.cid) = BaseCID_hash(ctx[2].cid.cid)
    /\ Len(log) = 4 /\ log[1].ev = "check" /\ log[2].ev = "check"
    /\ Cardinality(cset) = 1

(***************************************************************************)
(* C21 - parse_ipfs_path(text) returns text unchanged when it has no       *)
(* /ipfs/ segment, or when no /ipfs/ is followed by a character other than *)
(* / ? #; otherwise it returns the maximal run of such characters after    *)
(* the leftmost /ipfs/ that is followed by one, whatever precedes the      *)
(* segment (bare path, ipfs.io URL, localhost:<port> URL) and whatever     *)
(* follows the run (sub-path, query, fragment).                            *)
(***************************************************************************)
Anchors(t) ==
    {i \in 1..Len(t) :
        /\ StartsAt(t, i, IpfsSegment)
        /\ i + 6 <= Len(t)
        /\ t[i + 6] \notin PathStops}

IsRunAfter(t, i, r) ==
    /\ r # <<>>
    /\ i + 5 + Len(r) <= Len(t)
    /\ r = SubSeq(t, i + 6, i + 5 + Len(r))
    /\ \A k \in 1..Len(r) : r[k] \notin PathStops
    /\ i + 6 + Len(r) > Len(t) \/ t[i + 6 + Len(r)] \in PathStops

C21_ParseIpfsPath ==
    call.op = "parse_ipfs_path" =>
        LET t == call.bytes
            r == wire.val
        IN  /\ wire.ok
            /\ IF Anchors(t) = {} THEN r = t
               ELSE \E i \in Anchors(t) :
                        /\ \A j \in Anchors(t) : i <= j
                        /\ IsRunAfter(t, i, r)

\* a localhost URL with a query string yields the text of the CID
C21_Witness ==
    /\ call.op = "parse_ipfs_path"
    /\ \E c \in PathCids :
           /\ call.bytes = HostLocalhost \o IpfsSegment \o encode(c, "default").val
                                \o <<63, 97>>
           /\ wire.val = encode(c, "default").val

(***************************************************************************)
(* C22 - from_string(t) of a text t has the outcome (the CID, or the error *)
(* kind) of from_bytes of parse_ipfs_path(t); from_string of /ipfs/        *)
(* followed by a non-empty s without / ? # has the outcome of              *)
(* from_string(s).                                                         *)
(***************************************************************************)
SameOutcome(a, b) == a.ok = b.ok /\ a.cid = b.cid /\ a.err = b.err

C22_FromStringDelegates ==
    (call.op = "from_string" /\ call.codec = "str") =>
        /\ SameOutcome(res, from_bytes(parse_ipfs_path(call.bytes)))
        /\ \A s \in PathCores \ {<<>>} :
               call.bytes = IpfsSegment \o s
                   => SameOutcome(res, from_string([type |-> "str", val |-> s]))

\* /ipfs/ followed by the base58 text of a version 0 CID parses to that CID
C22_Witness ==
    /\ call.op = "from_string" /\ call.codec = "str"
    /\ \E c \in PathCids :
           /\ c.cls = "CIDv0"
           /\ call.bytes = IpfsSegment \o encode(c, "default").val
           /\ res.ok /\ res.cid = c

C24_ExtractEncoding ==
    call.op = "extract_encoding" =>
        LET t == call.bytes
        IN  IF Len(t) < 2 THEN ~res.ok /\ res.err = "TooShort"
            ELSE IF Len(t) = 46 /\ t[1] = 81 /\ t[2] = 109
            THEN res.ok /\ res.name = "base58btc"
            ELSE IF \E e \in registry : e.code = t[1]
            THEN res.ok /\ \E e \in registry : e.code = t[1] /\ res.name = e.encoding
            ELSE ~res.ok /\ res.err = "UnknownEncoding"

\* a text of 45 characters that begins with Qm is looked up in the
\* registry, which has no prefix Q
C24_Witness ==
    /\ call.op = "extract_encoding"
    /\ Len(call.bytes) = 45 /\ SubSeq(call.bytes, 1, 2) = Qm
    /\ ~res.ok /\ res.err = "UnknownEncoding"

(***************************************************************************)
(* C25 - as claimed: in every successful from_reader call the count        *)
(* returned is the number of bytes taken from the stream, the CID is       *)
(* from_bytes of exactly those bytes and the bytes after them are left     *)
(* unread; and a stream of any version 1 buffers back to back yields the   *)
(* CIDs one per call in order (each call yields the first and leaves the   *)
(* buffers of the others).                                                 *)
(***************************************************************************)
Taken == Len(call.bytes) - Len(wire.val)

ExactRead ==
    (call.op = "from_reader" /\ wireKind = "stream" /\ res.ok)
    => /\ res.bytes_read = Taken
       /\ wire.val = SubSeq(call.bytes, Taken + 1, Len(call.bytes))
       /\ SameOutcome(res, from_bytes(SubSeq(call.bytes, 1, Taken)))

CidSeqs(S) == UNION {[1..n -> S] : n \in 1..MaxParts}

Buffers(cs) == Flat([i \in 1..Len(cs) |-> buffer(cs[i]).val])

\* a call on the buffers of cs back to back yields the first CID of cs and
\* leaves the buffers of the others
OnePerCall(S) ==
    (call.op = "from_reader" /\ wireKind = "stream")
    => \A cs \in CidSeqs(S) :
           call.bytes = Buffers(cs)
               => res.ok /\ res.cid = cs[1] /\ wire.val = Buffers(Tail(cs))

C25_ReaderFraming == ExactRead /\ OnePerCall(StreamCids)

(***************************************************************************)
(* C25 - as the code has it: the first part as claimed; version 1 buffers  *)
(* back to back are yielded one per call in order when the multihash of    *)
(* each has its hash code and its digest length in one byte each.          *)
(***************************************************************************)
C25_ReaderFramingOneByteHeaders ==
    ExactRead /\ OnePerCall({c \in StreamCids : OneByteHeader(c.multihash)})

\* the second call on a stream of two version 1 buffers yields the second
\* CID and leaves nothing
C25_Witness ==
    /\ call.op = "from_reader" /\ wireKind = "stream" /\ call.n = 2
    /\ \E c \in StreamCids : call.bytes = buffer(c).val /\ res.ok /\ res.cid = c
    /\ wire.val = <<>>

\* a successful version 0 call leaves the bytes that follow unread
C25_WitnessV0 ==
    /\ call.op = "from_reader" /\ wireKind = "stream"
    /\ res.ok /\ res.cid.version = 0
    /\ wire.val # <<>>

(***************************************************************************)
(* C26 - as claimed: _decode_varint(data, offset) fails when no byte with  *)
(* a clear high bit occurs from offset to the end of data, also when data  *)
(* ends right after continuation bytes, and when the shift would exceed 64 *)
(* bits; it returns a (value, bytes consumed) pair only when it found a    *)
(* terminating byte.                                                       *)
(***************************************************************************)
Terminated(data, offset) == \E i \in (offset + 1)..Len(data) : data[i] < 128

C26_VarintRejectsMalformed ==
    pcall.op = "_decode_varint" =>
        LET data == pcall.data
            offset == pcall.version
        IN  /\ ~Terminated(data, offset) => ~pres.ok
            /\ pres.ok => /\ Terminated(data, offset)
                          /\ data[offset + pres.bytes_consumed] < 128

\* data that ends after a continuation byte is decoded: the bytes are
\* consumed and a value is returned
C26_UnterminatedAccepted ==
    /\ pcall.op = "_decode_varint"
    /\ pcall.data = <<1, 128>> /\ pcall.version = 1
    /\ pres.ok /\ pres.value = 0 /\ pres.bytes_consumed = 1

(***************************************************************************)
(* C27 - as claimed: for every valid CID c and every encoded form x of c   *)
(* alone that from_bytes accepts (the buffer of a version 1 CID, its       *)
(* multibase text c.encode(enc), the base58 text of a version 0 CID),      *)
(* from_bytes_strict(x) succeeds and returns the CID from_bytes(x)         *)
(* returns.                                                                *)
(***************************************************************************)
C27_StrictAcceptsEveryForm ==
    (call.op = "from_bytes_strict" /\ wireKind \in {"text", "buffer"}
        /\ ValidTriple(obj) /\ from_bytes(wire.val).ok)
    => res.ok /\ res.cid = from_bytes(wire.val).cid

\* the base58btc text of a valid version 1 CID, which from_bytes parses to
\* that CID, is refused for trailing bytes
C27_TextRefused ==
    /\ call.op = "from_bytes_strict" /\ wireKind = "text" /\ wireEnc = "base58btc"
    /\ obj.version = 1 /\ ValidTriple(obj)
    /\ from_bytes(wire.val).ok /\ from_bytes(wire.val).cid = obj
    /\ ~res.ok /\ res.err = "TrailingBytes"

(***************************************************************************)
(* C28 - as claimed: for any two CIDs made through the public              *)
(* constructors (CIDv0, CIDv1, make_cid, the parser, builders,             *)
(* Prefix.sum), equal buffers, and so equal key_string() keys, imply equal *)
(* (version, codec, multihash) triples.                                    *)
(***************************************************************************)
EqualKeys ==
    /\ wireKind = "key" /\ wire.ok
    /\ key_string(prev).ok /\ wire.val = key_string(prev).val

C28_KeyIdentifies == EqualKeys => BaseCID_hash(obj) = BaseCID_hash(prev)

(***************************************************************************)
(* C28 - as the code has it: two CIDs whose multihashes both pass the      *)
(* structural validator (those of the parser, and those built from valid   *)
(* multihashes) are equal as triples when their buffers, and so their      *)
(* key_string() keys, are equal.                                           *)
(***************************************************************************)
C28_KeyIdentifiesValidated ==
    (EqualKeys /\ mh_decode(obj.multihash) /\ mh_decode(prev.multihash))
    => BaseCID_hash(obj) = BaseCID_hash(prev)

\* a CID from the parser and one from a constructor have the same key
C28_Witness ==
    /\ EqualKeys
    /\ obj.version = 1 /\ ValidTriple(obj) /\ ValidTriple(prev)
    /\ call.op = "key_string"
    /\ obj = prev

\* CIDv0 of bytes that are the buffer of a version 1 CID has the key of
\* that CID
C28_FramedCollision ==
    /\ EqualKeys
    /\ prev.version = 0 /\ obj.version = 1 /\ ValidTriple(obj)

(***************************************************************************)
(* C29 - as claimed: for every (version, codec) pair that Prefix(version,  *)
(* codec, ...) or make_cid(version, codec, multihash) rejects, both reject *)
(* it, with the same kind among InvalidVersion, UnknownCodec and           *)
(* CodecVersionMismatch, version 0 with an unregistered codec included.    *)
(***************************************************************************)
ConstructorKinds == {"InvalidVersion", "UnknownCodec", "CodecVersionMismatch"}

C29_ConstructorsAgree ==
    pcall.op = "Prefix" =>
        \A h \in Multihashes :
            LET m == make_cid3(pcall.version, pcall.codec, h)
            IN (~pres.ok \/ ~m.ok) =>
                   /\ ~pres.ok /\ ~m.ok
                   /\ pres.err \in ConstructorKinds
                   /\ pres.err = m.err

\* the two agree on every rejected pair but version 0 with an unregistered
\* codec
C29_AgreeButV0Unregistered ==
    (pcall.op = "Prefix"
        /\ ~(pcall.version = 0 /\ ~multicodec_is_codec(pcall.codec))) =>
        \A h \in Multihashes :
            LET m == make_cid3(pcall.version, pcall.codec, h)
            IN (~pres.ok \/ ~m.ok) =>
                   /\ ~pres.ok /\ ~m.ok
                   /\ pres.err \in ConstructorKinds
                   /\ pres.err = m.err

\* Prefix(0, unregistered codec, ...) fails as a version mismatch, make_cid
\* of the same pair as an unknown codec
C29_V0Unregistered ==
    /\ pcall.op = "Prefix" /\ pcall.version = 0
    /\ ~multicodec_is_codec(pcall.codec)
    /\ pres.err = "CodecVersionMismatch"
    /\ \A h \in Multihashes :
           make_cid3(pcall.version, pcall.codec, h).err = "UnknownCodec"

(***************************************************************************)
(* C30 - builder switching is one-way: starting from a V0Builder, after    *)
(* any sequence of with_codec calls the current builder is a V0Builder if  *)
(* and only if every codec requested so far was dag-pb; once a V1Builder   *)
(* has been returned no later with_codec call, not even back to dag-pb,    *)
(* yields a V0Builder, so sum then produces a version 1 CID; and all along *)
(* the hash type stays sha2-256 with the default length.                   *)
(***************************************************************************)
Current == builders[Len(builders)]

C30_OneWaySwitch ==
    bcall.op \in ChainOps =>
        /\ Current.cls = "V0Builder"
               <=> \A i \in 1..Len(Requested) : Requested[i] = "dag-pb"
        /\ \A i, j \in 1..Len(builders) :
               (i < j /\ builders[i].cls = "V1Builder")
                   => builders[j].cls = "V1Builder"
        /\ \A i \in 1..Len(builders) :
               builders[i].cls = "V1Builder"
                   => builders[i].mh_type = "sha2-256" /\ builders[i].mh_length = -1
        /\ bcall.op = "chain.sum" =>
               /\ bres.val.ok
               /\ bres.val.cid.multihash
                      = mh_encode(sha256(bcall.data), "sha2-256", <<>>).val
               /\ Current.cls = "V1Builder" =>
                      /\ bres.val.cid.version = 1
                      /\ bres.val.cid.codec = Current.codec
               /\ Current.cls = "V0Builder" => bres.val.cid.version = 0

\* away from dag-pb and back: the sum is a version 1 CID of codec dag-pb
C30_Witness ==
    /\ bcall.op = "chain.sum"
    /\ Requested = <<"dag-json", "dag-pb">>
    /\ Current = V1Builder_init("dag-pb", "sha2-256", -1)
    /\ bres.val.ok /\ bres.val.cid.version = 1 /\ bres.val.cid.codec = "dag-pb"

====
